---- MODULE Spec2Model ----
(***************************************************************************)
(* A model of the datastore PostgreSQL backend                             *)
(* (src/ckanext/datastore/backend/postgres.py): the write engine           *)
(* (upsert / upsert_data), the schema manager (create_table, alter_table,  *)
(* create_indexes, create_alias) and the session handling of create and    *)
(* upsert.  The relational engine is modelled by what its statements do to *)
(* a database value: a transaction works on a copy of the committed        *)
(* database and the copy replaces it only on COMMIT.                       *)
(***************************************************************************)
EXTENDS Integers, Sequences, FiniteSets, TLC

VARIABLES
    db,     \* the committed database: tables (columns, rows, indexes, ...) and views
    call,   \* the data_dict (and injected engine fault) of the last completed call
    pre,    \* the committed database as it was when the last call started
    out     \* what the last call returned or raised, and what it executed

vars == <<db, call, pre, out>>

----------------------------------------------------------------------------
(* Bounds of the model *)

\* the largest scalar value a record carries in a column
MaxVal == 2
\* the largest _id a record names
MaxRecId == 1
\* the number of records in one write call
MaxRecords == 2
\* the number of values the _id sequence of a table hands out
MaxSerial == 2

----------------------------------------------------------------------------
(* Values *)

\* SQL NULL / Python None
Null == 0
Vals == 1..MaxVal

Range(s) == {s[i] : i \in DOMAIN s}

\* functions with a finite domain that is a subset of D and values in V
PartialFns(D, V) == UNION {[S -> V] : S \in SUBSET D}

_INSERT == "insert"
_UPSERT == "upsert"
_UPDATE == "update"

----------------------------------------------------------------------------
(* The engine: tables, rows, indexes *)

\* an index of a table: its name (the content-addressed name is modelled by
\* the text it is the hash of), whether it is unique / primary, the columns
\* its key is computed from, and those of them that are indexed as plain
\* columns (pg_index.indkey holds 0 for an expression such as (c).json::text)
Index(name, unique, primary, cols, attrs) ==
    [name |-> name, unique |-> unique, primary |-> primary, cols |-> cols,
     attrs |-> attrs]

PkeyIndex == Index(<<"_pkey">>, TRUE, TRUE, <<"_id">>, <<"_id">>)

NoTable ==
    [exists |-> FALSE, columns |-> <<>>, rows |-> {}, serial |-> 0,
     indexes |-> <<>>, triggers |-> <<>>]

ColumnIds(tbl) == {tbl.columns[i].id : i \in DOMAIN tbl.columns}

\* a unique index rejects two rows that agree, with no NULL, on all its columns
UniqueViolated(rows, indexes) ==
    \E i \in DOMAIN indexes :
        /\ indexes[i].unique
        /\ \E r1, r2 \in rows :
              /\ r1 # r2
              /\ \A j \in DOMAIN indexes[i].cols :
                    LET c == indexes[i].cols[j]
                    IN  c \in DOMAIN r1 /\ c \in DOMAIN r2
                        /\ r1[c] # Null /\ r1[c] = r2[c]

\* WHERE (cols) = (values): true of a row only if every pair is equal and not NULL
KeyMatch(row, keys, vals) ==
    \A i \in DOMAIN keys : vals[i] # Null /\ row[keys[i]] = vals[i]

----------------------------------------------------------------------------
(* Errors *)

NoError ==
    [exc |-> "none", key |-> "none", msg |-> "none", records_row |-> -1,
     pgcode |-> "none", at |-> -1]

\* toolkit.ValidationError(error_dict): key and msg are the entry of the
\* error dict, records_row its 'records_row' entry (-1: no such entry), pgcode
\* the engine error it was translated from ("none": it was raised by a check
\* of the code).  at is not part of the exception: it is the index (from 0)
\* of the record that was being validated or written when the error arose
\* (-1: no record was)
ValidationError(key, msg, records_row, pgcode, at) ==
    [exc |-> "ValidationError", key |-> key, msg |-> msg,
     records_row |-> records_row, pgcode |-> pgcode, at |-> at]

\* an engine exception (sqlalchemy DBAPIError) that is not translated
DBAPIError(pgcode) ==
    [exc |-> "DBAPIError", key |-> "none", msg |-> "none", records_row |-> -1,
     pgcode |-> pgcode, at |-> -1]

unique_violation == "23505"
query_canceled == "57014"
syntax_error == "42601"
duplicate_table == "42P07"

----------------------------------------------------------------------------
(* Catalog queries *)

RECURSIVE UniqueCols(_, _)
UniqueCols(indexes, i) ==
    IF i > Len(indexes) THEN <<>>
    ELSE (IF indexes[i].unique /\ ~indexes[i].primary
             THEN indexes[i].attrs ELSE <<>>) \o UniqueCols(indexes, i + 1)

\* the plain columns of the unique, non-primary indexes of the table
_get_unique_key(tbl) == UniqueCols(tbl.indexes, 1)

\* the columns of the table that do not start with '_'
_get_fields(tbl) == tbl.columns

_pluck_id(fields) == [i \in DOMAIN fields |-> fields[i].id]

----------------------------------------------------------------------------
(* Write statements.  Each returns the table after the statement and the   *)
(* engine error code ("none" when it succeeded); a failed statement leaves *)
(* the rows as they were, but a sequence value it drew stays drawn.        *)

Stmt(tbl, pgcode, rowcount) == [tbl |-> tbl, pgcode |-> pgcode, rowcount |-> rowcount]

\* INSERT INTO res (cols) VALUES (...): one row, _id from the sequence,
\* the columns that are not given are NULL
InsertRow(tbl, cols, rec) ==
    LET id  == tbl.serial + 1
        row == [c \in {"_id"} \cup ColumnIds(tbl) |->
                  IF c = "_id" THEN id
                  ELSE IF c \in cols /\ c \in DOMAIN rec THEN rec[c] ELSE Null]
        drawn == [tbl EXCEPT !.serial = id]
    IN  IF UniqueViolated(tbl.rows \cup {row}, tbl.indexes)
           THEN Stmt(drawn, unique_violation, 0)
           ELSE Stmt([drawn EXCEPT !.rows = @ \cup {row}], "none", 1)

\* UPDATE res SET (cols, "_full_text") = (values, NULL) WHERE (keys) = (vals)
UpdateRows(tbl, cols, rec, keys, vals) ==
    LET hit  == {r \in tbl.rows : KeyMatch(r, keys, vals)}
        upd(r) == [c \in DOMAIN r |-> IF c \in cols THEN rec[c] ELSE r[c]]
        rows2 == (tbl.rows \ hit) \cup {upd(r) : r \in hit}
    IN  IF cols = {} THEN Stmt(tbl, syntax_error, 0)   \* SET (, "_full_text")
        ELSE IF UniqueViolated(rows2, tbl.indexes)
           THEN Stmt(tbl, unique_violation, 0)
           ELSE Stmt([tbl EXCEPT !.rows = rows2], "none", Cardinality(hit))

\* the INSERT of an upsert without its WHERE NOT EXISTS
InsertWhereNotExists_Unguarded(tbl, cols, rec, keys, vals) ==
    IF cols = {} THEN Stmt(tbl, syntax_error, 0)
    ELSE InsertRow(tbl, cols, rec)

\* INSERT INTO res (cols) SELECT values
\*   WHERE NOT EXISTS (SELECT 1 FROM res WHERE (keys) = (vals))
InsertWhereNotExists(tbl, cols, rec, keys, vals) ==
    IF cols = {} THEN Stmt(tbl, syntax_error, 0)
    ELSE IF \E r \in tbl.rows : KeyMatch(r, keys, vals)
       THEN Stmt(tbl, "none", 0)
       ELSE InsertRow(tbl, cols, rec)

----------------------------------------------------------------------------
(* upsert_data *)

\* the state of the open transaction while a call runs: the table as the
\* transaction sees it, and the exception raised (NoError while none is)
Tx(tbl, err) == [tbl |-> tbl, err |-> err]

\* _validate_record(record, num, field_names): NoError, or the error raised
_validate_record(record, num, field_names) ==
    IF (DOMAIN record) \ Range(field_names) # {}
       THEN ValidationError("records", "has extra keys", -1, "none", num)
       ELSE NoError

RECURSIVE ValidateAll(_, _, _)
ValidateAll(records, i, field_names) ==
    IF i > Len(records) THEN NoError
    ELSE LET e == _validate_record(records[i], i - 1, field_names)
         IN  IF e # NoError THEN e ELSE ValidateAll(records, i + 1, field_names)

\* connection.execute(INSERT ..., rows): the rows are inserted one after the
\* other; the first one the engine rejects raises.  fault is the index (from
\* 1) of the record whose statement is cancelled by the statement timeout.
\* num is the value the loop variable has when the statement is executed.
RECURSIVE InsertMany(_, _, _, _, _)
InsertMany(tbl, records, i, fault, num) ==
    IF i > Len(records) THEN Tx(tbl, NoError)
    ELSE IF fault = i
       THEN Tx(tbl, ValidationError("records", "engine", num, query_canceled, i - 1))
    ELSE LET r == InsertRow(tbl, ColumnIds(tbl), records[i])
         IN  IF r.pgcode # "none"
                THEN Tx(r.tbl, ValidationError("records", "engine", num, r.pgcode, i - 1))
                ELSE InsertMany(r.tbl, records, i + 1, fault, num)

\* the key of a record: "_id" when the record carries it, else the unique key
KeyCols(record, unique_keys) ==
    IF "_id" \in DOMAIN record THEN <<"_id">> ELSE unique_keys

KeyVals(record, unique_keys) ==
    LET keys == KeyCols(record, unique_keys)
    IN  [i \in DOMAIN keys |-> record[keys[i]]]

\* a check that lets an update of no row pass
rowcount_ok_AtMostOne(rowcount) == rowcount <= 1

\* "validate that exactly one row has been updated"
rowcount_ok(rowcount) == rowcount = 1

\* one pass of the loop over the records of an update / upsert call
WriteRecord(tbl, method, record, num, unique_keys, faulty) ==
    LET field_names == _pluck_id(_get_fields(tbl))
        missing_fields == {f \in Range(unique_keys) : f \notin DOMAIN record}
        non_existing_field_names ==
            {f \in DOMAIN record : f \notin Range(field_names) /\ f # "_id"}
        used_field_names == {f \in Range(field_names) : f \in DOMAIN record}
        keys == KeyCols(record, unique_keys)
        vals == KeyVals(record, unique_keys)
        engine(pgcode) == ValidationError("records", "engine", num, pgcode, num)
    IN  IF unique_keys = <<>> /\ "_id" \notin DOMAIN record
           THEN Tx(tbl, ValidationError("table", "unique key must be passed",
                                        -1, "none", num))
        ELSE IF "_id" \notin DOMAIN record /\ missing_fields # {}
           THEN Tx(tbl, ValidationError("key", "missing", -1, "none", num))
        ELSE IF non_existing_field_names # {}
           THEN Tx(tbl, ValidationError("fields", "do not exist", -1, "none", num))
        ELSE IF faulty
           THEN Tx(tbl, engine(query_canceled))
        ELSE LET u == UpdateRows(tbl, used_field_names, record, keys, vals)
             IN  IF u.pgcode # "none" THEN Tx(u.tbl, engine(u.pgcode))
                 ELSE IF method = _UPDATE
                    THEN IF ~rowcount_ok(u.rowcount)
                            THEN Tx(u.tbl, ValidationError("key", "not found",
                                                           -1, "none", num))
                            ELSE Tx(u.tbl, NoError)
                 ELSE LET n == InsertWhereNotExists(u.tbl, used_field_names,
                                                    record, keys, vals)
                      IN  IF n.pgcode # "none" THEN Tx(n.tbl, engine(n.pgcode))
                          ELSE Tx(n.tbl, NoError)

RECURSIVE WriteRecords(_, _, _, _, _, _)
WriteRecords(tbl, method, records, i, unique_keys, fault) ==
    IF i > Len(records) THEN Tx(tbl, NoError)
    ELSE LET t == WriteRecord(tbl, method, records[i], i - 1, unique_keys, fault = i)
         IN  IF t.err # NoError THEN t
             ELSE WriteRecords(t.tbl, method, records, i + 1, unique_keys, fault)

\* upsert_data(context, data_dict) on the table of data_dict['resource_id'].
\* fault names the statement the statement timeout cancels: 0 the catalog
\* query of _get_fields, i > 0 the write statement of record i, -1 none.
upsert_data(tbl, method, records, fault) ==
    LET fields == _get_fields(tbl)
        field_names == _pluck_id(fields)
    IN  IF records = <<>> THEN Tx(tbl, NoError)
        ELSE IF fault = 0 THEN Tx(tbl, DBAPIError(query_canceled))
        ELSE IF field_names = <<>> THEN Tx(tbl, NoError)
        ELSE IF method = _INSERT
           THEN LET e == ValidateAll(records, 1, field_names)
                IN  IF e # NoError THEN Tx(tbl, e)
                    ELSE InsertMany(tbl, records, 1, fault, Len(records) - 1)
        ELSE WriteRecords(tbl, method, records, 1, _get_unique_key(tbl), fault)

----------------------------------------------------------------------------
(* Sessions: transactions and the translation of engine errors *)

\* what the except clauses of upsert() and create() raise for an exception
\* that reaches them
translate(err) ==
    IF err.exc # "DBAPIError" THEN err
    ELSE IF err.pgcode = unique_violation
       THEN ValidationError("constraints", "uniqueness constraint", -1,
                            err.pgcode, err.at)
    ELSE IF err.pgcode = query_canceled
       THEN ValidationError("query", "Query took too long", -1, err.pgcode,
                            err.at)
    ELSE err

\* an upsert() that commits whatever upsert_data raised
upsert_trans_AlwaysCommits(err, dry_run) ==
    IF dry_run THEN "rolled_back" ELSE "committed"

\* the state of the transaction when upsert() leaves its try statement:
\* committed / rolled back by the body, rolled back by "except Exception",
\* or still active after one of the engine-error clauses
upsert_trans(err, dry_run) ==
    IF err = NoError THEN (IF dry_run THEN "rolled_back" ELSE "committed")
    ELSE IF err.exc = "DBAPIError" THEN "active"
    ELSE "rolled_back"

\* connection.close(): a transaction that is still active is rolled back
close(trans) == IF trans = "active" THEN "rolled_back" ELSE trans

\* the committed database after a transaction on table res ended: its work
\* replaces the table only if it was committed; sequence values drawn are
\* never given back
Persist(d, res, work, trans) ==
    IF trans = "committed" THEN [d EXCEPT !.tables[res] = work]
    ELSE [d EXCEPT !.tables[res].serial = work.serial]

\* upsert(context, data_dict)
upsert(d, data_dict, fault) ==
    LET res == data_dict.resource_id
        t == upsert_data(d.tables[res], data_dict.method, data_dict.records, fault)
        trans == close(upsert_trans(t.err, data_dict.dry_run))
    IN  [db |-> Persist(d, res, t.tbl, trans),
         out |-> [err |-> translate(t.err), trans |-> trans, work |-> t.tbl]]

----------------------------------------------------------------------------
(* The write engine on one resource *)

\* the keys a record may carry, each with the values it may have: _id, and
\* k and n, which are columns of the table or not (a table with the single
\* column k makes n a key that is no column)
RecordKeys == {"_id", "k", "n"}

KeyValues(key) == IF key = "_id" THEN 1..MaxRecId ELSE Vals

Records ==
    {r \in PartialFns(RecordKeys, Vals \cup (1..MaxRecId)) :
        \A key \in DOMAIN r : r[key] \in KeyValues(key)}

RecordLists == UNION {[1..n -> Records] : n \in 0..MaxRecords}

\* dry_run is read only by a call that raised nothing, so a call with an
\* injected fault is drawn with dry_run off
Faults(records) == -1..Len(records)
DryRuns(fault) == IF fault = -1 THEN BOOLEAN ELSE {FALSE}

ColumnK == [id |-> "k", type |-> "int4"]
ColumnN == [id |-> "n", type |-> "int4"]

UniqueIndexK == Index(<<"cols", "k">>, TRUE, FALSE, <<"k">>, <<"k">>)

WriteTable(columns, indexes) ==
    [exists |-> TRUE, columns |-> columns, rows |-> {}, serial |-> 0,
     indexes |-> indexes, triggers |-> <<>>]

NoCall == [op |-> "none"]
NoOut == [err |-> NoError, trans |-> "none", work |-> NoTable]

InitWrite ==
    /\ \E columns \in {<<ColumnK>>, <<ColumnK, ColumnN>>},
          indexes \in {<<PkeyIndex>>, <<PkeyIndex, UniqueIndexK>>} :
          db = [tables |-> [r \in {"r1"} |-> WriteTable(columns, indexes)]]
    /\ call = NoCall
    /\ pre = db
    /\ out = NoOut

\* a write call, from the request to the result the caller gets
Upsert(method, records, dry_run, fault) ==
    LET data_dict == [op |-> "upsert", resource_id |-> "r1", method |-> method,
                      records |-> records, dry_run |-> dry_run, fault |-> fault]
        r == upsert(db, data_dict, fault)
    IN  /\ r.out.work.serial <= MaxSerial
        /\ db' = r.db
        /\ call' = data_dict
        /\ pre' = db
        /\ out' = r.out

\* the caller has taken the result of the call; the next request can come
Return ==
    /\ call # NoCall
    /\ call' = NoCall
    /\ out' = NoOut
    /\ pre' = db
    /\ UNCHANGED db

\* the requests that reach the backend, one at a time
NextWrite ==
    \/ /\ call = NoCall
       /\ \E method \in {_INSERT, _UPDATE, _UPSERT}, records \in RecordLists :
            \E fault \in Faults(records) : \E dry_run \in DryRuns(fault) :
                Upsert(method, records, dry_run, fault)
    \/ Return

SpecWrite == InitWrite /\ [][NextWrite]_vars

----------------------------------------------------------------------------
(* Properties of the write engine *)

\* the table of the write calls, now and when the last call started, and as
\* the transaction of the last call saw it when the call ended
Tbl == db.tables["r1"]
PreTbl == pre.tables["r1"]
Work == out.work

UpsertCall == call.op = "upsert"
Failed == out.err # NoError

\* what the table holds apart from the sequence, which no rollback restores
Content(tbl) == [tbl EXCEPT !.serial = 0]

\* a record that names its row by the unique key {k} alone and carries only
\* columns of the table
KeyedByK(tbl, record) ==
    /\ "k" \in DOMAIN record
    /\ "_id" \notin DOMAIN record
    /\ DOMAIN record \subseteq ColumnIds(tbl)

\* the rows an upsert of the records i.. must leave: a record whose k is the
\* k of a row replaces that row's values for the columns it carries, any
\* other record adds one row
RECURSIVE Upserted(_, _, _, _, _)
Upserted(rows, serial, cols, records, i) ==
    IF i > Len(records) THEN rows
    ELSE LET rec  == records[i]
             same == {r \in rows : r["k"] = rec["k"]}
             put(r) == [c \in DOMAIN r |-> IF c \in DOMAIN rec THEN rec[c] ELSE r[c]]
             new  == [c \in {"_id"} \cup cols |->
                        IF c = "_id" THEN serial + 1
                        ELSE IF c \in DOMAIN rec THEN rec[c] ELSE Null]
         IN  IF same # {}
                THEN Upserted((rows \ same) \cup {put(r) : r \in same}, serial,
                              cols, records, i + 1)
                ELSE Upserted(rows \cup {new}, serial + 1, cols, records, i + 1)

\* C1: on a resource whose unique key is {k}, an upsert call whose records
\* name their rows by k succeeds, and record after record it either rewrites
\* the one row that has the record's k (same number of rows, exactly one row
\* with that k, carrying the record's values) or, when no row has that k,
\* adds exactly one row; the rows are committed unless dry_run is set.
C1_UpsertByKey ==
    (/\ UpsertCall /\ call.method = _UPSERT /\ call.fault = -1
     /\ _get_unique_key(PreTbl) = <<"k">>
     /\ \A i \in DOMAIN call.records : KeyedByK(PreTbl, call.records[i]))
    => /\ ~Failed
       /\ Work.rows = Upserted(PreTbl.rows, PreTbl.serial, ColumnIds(PreTbl),
                               call.records, 1)
       /\ Tbl.rows = IF call.dry_run THEN PreTbl.rows ELSE Work.rows
       /\ Len(call.records) = 1 =>
            LET rec == call.records[1]
                was == {r \in PreTbl.rows : r["k"] = rec["k"]}
                now == {r \in Work.rows : r["k"] = rec["k"]}
            IN  /\ Cardinality(now) = 1
                /\ \A r \in now : \A c \in DOMAIN rec : r[c] = rec[c]
                /\ Cardinality(Work.rows) =
                      Cardinality(PreTbl.rows) + (IF was = {} THEN 1 ELSE 0)

\* a committed two-record upsert whose first record rewrote an existing row
\* and whose second record added a row
C1_Witness ==
    /\ UpsertCall /\ call.method = _UPSERT /\ ~Failed /\ ~call.dry_run
    /\ _get_unique_key(PreTbl) = <<"k">>
    /\ Len(call.records) = 2
    /\ \A i \in DOMAIN call.records : KeyedByK(PreTbl, call.records[i])
    /\ \E r \in PreTbl.rows : r["k"] = call.records[1]["k"] /\ r \notin Tbl.rows
    /\ \A r \in PreTbl.rows : r["k"] # call.records[2]["k"]
    /\ Cardinality(Tbl.rows) = Cardinality(PreTbl.rows) + 1

\* C2: a write call that raises leaves the table exactly as it was before
\* the call, whatever its method and whatever records were written before
\* the failing one.
C2_AllOrNothing ==
    (UpsertCall /\ Failed) => Content(Tbl) = Content(PreTbl)

\* an insert call whose second record the engine rejected after its first
\* record had been inserted in the transaction
C2_Witness ==
    /\ UpsertCall /\ Failed /\ call.method = _INSERT
    /\ out.err.pgcode = unique_violation /\ out.err.at = 1
    /\ Work.rows # PreTbl.rows
    /\ Tbl.rows = PreTbl.rows

\* the record of the call that was being written when the call raised
FailingRecord == call.records[out.err.at + 1]

\* a record an update call accepts for writing: it has a key, carries only
\* columns, and at least one of them
Writable(tbl, record) ==
    /\ "_id" \in DOMAIN record \/ (_get_unique_key(tbl) # <<>>
            /\ Range(_get_unique_key(tbl)) \subseteq DOMAIN record)
    /\ DOMAIN record \subseteq ColumnIds(tbl) \cup {"_id"}
    /\ DOMAIN record \cap ColumnIds(tbl) # {}

NoRowHasKey(tbl, record) ==
    \A r \in tbl.rows :
        ~KeyMatch(r, KeyCols(record, _get_unique_key(tbl)),
                  KeyVals(record, _get_unique_key(tbl)))

\* C3: an update call raises the validation error 'key ... not found' for a
\* record whose key (_id, or the unique key) matches no row, and the table is
\* then as before the call, rows written for earlier records included.
C3_UpdateMiss ==
    (UpsertCall /\ call.method = _UPDATE) =>
       /\ (/\ call.records # <<>> /\ call.fault \notin {0, 1}
           /\ Writable(PreTbl, call.records[1])
           /\ NoRowHasKey(PreTbl, call.records[1]))
          => (out.err.msg = "not found" /\ out.err.at = 0)
       /\ out.err.msg = "not found" =>
             /\ out.err.exc = "ValidationError" /\ out.err.key = "key"
             /\ NoRowHasKey(Work, FailingRecord)
             /\ Content(Tbl) = Content(PreTbl)

\* an update call whose first record changed a row and whose second record
\* has a key no row has
C3_Witness ==
    /\ UpsertCall /\ call.method = _UPDATE
    /\ out.err.msg = "not found" /\ out.err.at = 1
    /\ Work.rows # PreTbl.rows
    /\ Tbl.rows = PreTbl.rows

\* C4: the validation error raised for an engine error in a batch carries,
\* as records_row, the index of the first record the engine rejected.
C4_RecordsRowIsFailingRecord ==
    (UpsertCall /\ out.err.key = "records" /\ out.err.pgcode # "none")
        => out.err.records_row = out.err.at

----------------------------------------------------------------------------
(* Schema manager: the transaction of create() *)

\* data_dict.get(key) is not None: the request carries the entry
Given(data_dict, key) == key \in DOMAIN data_dict

duplicate_column == "42701"
duplicate_alias == "42712"
undefined_function == "42883"

\* the order of the names, for sorted() and for the iteration of a dict / set
Alphabet == <<"_full_text", "_id", "a", "b", "c", "j", "k", "n", "r1", "r2",
              "x", "y", "zz">>

Ordered(S) ==
    LET in(x) == x \in S
    IN  SelectSeq(Alphabet, in)

\* an SQL statement the schema manager executed: what it does and to what
Sql(op, name) == [op |-> op, name |-> name]

\* the state of the open transaction of create(): the database as the
\* transaction sees it, the exception raised, whether the engine has aborted
\* the transaction (a statement failed in it), the statements executed
Txn(d, err, aborted, stmts) ==
    [d |-> d, err |-> err, aborted |-> aborted, stmts |-> stmts]

Raise(w, err) == Txn(w.d, err, w.aborted, w.stmts)

\* w if it has raised, else next
Unless(w, next) == IF w.err # NoError THEN w ELSE next

\* the engine rejected or cancelled the statement sql
Reject(w, pgcode, sql) == Txn(w.d, DBAPIError(pgcode), TRUE, w.stmts \o sql)

----------------------------------------------------------------------------
(* Schema manager: indexes *)

\* datastore_helpers.should_fts_index_field_type
should_fts_index_field_type(type) == type \in {"text", "tsvector", "number"}

\* _generate_index_name(resource_id, field_str) of a full-text index
FtsName(field) == <<"fts", field.id>>

\* fields_string of a declared index: the nested columns by their json text
RECURSIVE fields_string(_, _)
fields_string(index_fields, json_fields) ==
    IF index_fields = <<>> THEN <<>>
    ELSE (IF Head(index_fields) \in json_fields
             THEN <<"json", Head(index_fields)>> ELSE <<Head(index_fields)>>)
         \o fields_string(Tail(index_fields), json_fields)

\* _build_fts_indexes: the indexes to create and the names not to keep
_build_fts_indexes(fields) ==
    LET all == <<[id |-> "_full_text", type |-> "tsvector"]>> \o fields
        keep(f) == f.id = "_full_text" \/ should_fts_index_field_type(f.type)
        drop(f) == ~keep(f)
        yes == SelectSeq(all, keep)
        no  == SelectSeq(all, drop)
    IN  [fts_indexes |-> [i \in DOMAIN yes |->
                            Index(FtsName(yes[i]), FALSE, FALSE, <<yes[i].id>>, <<>>)],
         fts_noindexes |-> {FtsName(no[i]) : i \in DOMAIN no}]

\* _drop_indexes(context, data_dict, unique): DROP INDEX of every index of
\* the table that is not primary and is unique / not unique
_drop_indexes(w, res, unique) ==
    LET tbl  == w.d.tables[res]
        gone(ix) == ~ix.primary /\ ix.unique = unique
        kept(ix) == ~gone(ix)
        drops == SelectSeq(tbl.indexes, gone)
    IN  Txn([w.d EXCEPT !.tables[res].indexes = SelectSeq(@, kept)], w.err,
            w.aborted,
            w.stmts \o [i \in DOMAIN drops |-> Sql("DROP INDEX", drops[i].name)])

\* _get_index_names(connection, resource_id)
_get_index_names(tbl) == {tbl.indexes[i].name : i \in DOMAIN tbl.indexes}

\* connection.execute(CREATE INDEX): the engine rejects a name that is taken
\* and a unique index the rows violate
CreateIndex(w, res, ix) ==
    LET tbl == w.d.tables[res]
        sql == <<Sql("CREATE INDEX", ix.name)>>
    IN  IF ix.name \in _get_index_names(tbl)
           THEN Reject(w, duplicate_table, sql)
        ELSE IF UniqueViolated(tbl.rows, <<ix>>)
           THEN Reject(w, unique_violation, sql)
        ELSE Txn([w.d EXCEPT !.tables[res].indexes = Append(@, ix)], w.err,
                 w.aborted, w.stmts \o sql)

\* the loop that executes the CREATE INDEX statements; with fault set the
\* statement timeout cancels the first of them
RECURSIVE CreateIndexes(_, _, _, _)
CreateIndexes(w, res, todo, fault) ==
    IF todo = <<>> \/ w.err # NoError THEN w
    ELSE IF fault
       THEN Reject(w, query_canceled, <<Sql("CREATE INDEX", Head(todo).name)>>)
    ELSE CreateIndexes(CreateIndex(w, res, Head(todo)), res, Tail(todo), fault)

\* the loop that drops the full-text indexes of the columns that have none
RECURSIVE DropNoIndexes(_, _, _)
DropNoIndexes(w, res, names) ==
    IF names = <<>> THEN w
    ELSE LET name == Head(names)
             other(ix) == ix.name # name
         IN  DropNoIndexes(
                 Txn([w.d EXCEPT !.tables[res].indexes = SelectSeq(@, other)],
                     w.err, w.aborted, w.stmts \o <<Sql("DROP INDEX", name)>>),
                 res, Tail(names))

\* sorted(list) of a list of names
sorted(s) ==
    LET count(x) == Cardinality({i \in DOMAIN s : s[i] = x})
        F[i \in 0..Len(Alphabet)] ==
            IF i = 0 THEN <<>>
            ELSE F[i - 1] \o [j \in 1..count(Alphabet[i]) |-> Alphabet[i]]
    IN  F[Len(Alphabet)]

\* create_indexes(context, data_dict), in the transaction w
create_indexes(w, data_dict) ==
    LET res == data_dict.resource_id
        indexes == data_dict.indexes
        primary_key == data_dict.primary_key
        has_indexes == Given(data_dict, "indexes")
        has_primary_key == Given(data_dict, "primary_key")
        fields == _get_fields(w.d.tables[res])
        field_ids == _pluck_id(fields)
        json_fields == {fields[i].id : i \in {j \in DOMAIN fields :
                                                 fields[j].type = "nested"}}
        fts == _build_fts_indexes(fields)
        w1 == IF has_indexes THEN _drop_indexes(w, res, FALSE) ELSE w
        indexes1 == IF has_indexes THEN indexes ELSE <<>>
        differs == /\ has_primary_key
                   /\ sorted(_get_unique_key(w1.d.tables[res]))
                        # sorted(primary_key)
        w2 == IF differs THEN _drop_indexes(w1, res, TRUE) ELSE w1
        indexes2 == IF differs THEN Append(indexes1, primary_key) ELSE indexes1
        given(index) == index # <<>>
        declared == SelectSeq(indexes2, given)
        plain(index) ==
            LET in(f) == f \in Range(index) /\ f \notin json_fields
            IN  SelectSeq(field_ids, in)
        sql_index_strings ==
            fts.fts_indexes \o
            [i \in DOMAIN declared |->
                Index(<<"cols">> \o fields_string(declared[i], json_fields),
                      has_primary_key /\ declared[i] = primary_key, FALSE,
                      declared[i],
                      plain(declared[i]))]
        current_indexes == _get_index_names(w2.d.tables[res])
        stale(ix) == ix.name \in fts.fts_noindexes
        old == SelectSeq(w2.d.tables[res].indexes, stale)
        w3 == DropNoIndexes(w2, res, [i \in DOMAIN old |-> old[i].name])
        missing(ix) == ix.name \notin current_indexes
    IN  IF \E i \in DOMAIN declared :
              Range(declared[i]) \ Range(field_ids) # {}
           THEN Raise(w2, ValidationError("index", "not a valid column name",
                                          -1, "none", -1))
           ELSE CreateIndexes(w3, res, SelectSeq(sql_index_strings, missing),
                              data_dict.fault = "create_index")

----------------------------------------------------------------------------
(* Schema manager: tables and columns *)

\* the types check_fields finds valid
ValidTypes == {"text", "int", "int4", "nested", "tsvector"}

\* the name the catalog gives the type of a column declared as type
pg_type(type) == IF type = "int" THEN "int4" ELSE type

\* _guess_type(field) of a value of a record; the values are integers
_guess_type(value) == "int"

\* check_fields(context, fields): NoError, or the error raised
check_fields(fields) ==
    IF \E i \in DOMAIN fields :
          "type" \in DOMAIN fields[i] /\ fields[i].type \notin ValidTypes
       THEN ValidationError("fields", "not a valid field type", -1, "none", -1)
       ELSE NoError

\* a declared field with the type guessed from the first record
Typed(field, records) ==
    IF "type" \in DOMAIN field THEN field
    ELSE [id |-> field.id, type |-> _guess_type(records[1][field.id])]

\* the declared fields whose type is neither given nor guessable
NotGuessable(fields, records) ==
    {i \in DOMAIN fields :
        /\ "type" \notin DOMAIN fields[i]
        /\ (records = <<>> \/ fields[i].id \notin DOMAIN records[1])}

\* the fields of the keys of the first record that are not in field_ids
ExtraFields(records, field_ids) ==
    IF records = <<>> THEN <<>>
    ELSE LET keys == Ordered(DOMAIN records[1] \ field_ids)
         IN  [i \in DOMAIN keys |->
                 [id |-> keys[i], type |-> _guess_type(records[1][keys[i]])]]

AddColumn(field) == [op |-> "ADD", name |-> field.id, type |-> field.type]

\* the names of all the columns of a table, those of the system included
AllColumnIds(tbl) == {"_id", "_full_text"} \cup ColumnIds(tbl)

\* ALTER TABLE res ADD id type / DROP COLUMN id, on a table: the table
\* after it.  A column that is dropped takes the indexes on it with it.
AlterColumn(tbl, sql) ==
    IF sql.op = "ADD"
       THEN [tbl EXCEPT
               !.columns = Append(@, [id |-> sql.name, type |-> pg_type(sql.type)]),
               !.rows = {[c \in DOMAIN r \cup {sql.name} |->
                            IF c = sql.name THEN Null ELSE r[c]] : r \in @}]
       ELSE LET other(f) == f.id # sql.name
                without(ix) == sql.name \notin Range(ix.cols)
            IN  [tbl EXCEPT
                   !.columns = SelectSeq(@, other),
                   !.rows = {[c \in DOMAIN r \ {sql.name} |-> r[c]] : r \in @},
                   !.indexes = SelectSeq(@, without)]

\* connection.execute of the statements of alter_sql in one batch: the
\* engine rejects the ADD of a column the table has
RECURSIVE ExecuteAlter(_, _, _, _)
ExecuteAlter(w, res, alter_sql, i) ==
    IF i > Len(alter_sql) THEN Txn(w.d, w.err, w.aborted, w.stmts \o alter_sql)
    ELSE LET tbl == w.d.tables[res]
             sql == alter_sql[i]
         IN  IF sql.op = "ADD" /\ sql.name \in AllColumnIds(tbl)
                THEN Reject(w, duplicate_column, alter_sql)
                ELSE ExecuteAlter(
                         Txn([w.d EXCEPT !.tables[res] = AlterColumn(tbl, sql)],
                             w.err, w.aborted, w.stmts),
                         res, alter_sql, i + 1)

\* an alter_table that keeps the declared field list as it is given
supplied_fields_AsGiven(fields, current_fields) == fields

\* "if not supplied_fields: supplied_fields = current_fields"
supplied_fields(fields, current_fields) ==
    IF fields = <<>> THEN current_fields ELSE fields

\* alter_table(context, data_dict, plugin_data), in the transaction w.  The
\* declared fields carry no 'info' and there is no plugin_data, so the batch
\* has no COMMENT ON COLUMN statement.
alter_table(w, data_dict) ==
    LET res == data_dict.resource_id
        current_fields == _get_fields(w.d.tables[res])
        supplied == supplied_fields(data_dict.fields, current_fields)
        records == data_dict.records
        field_ids == Range(_pluck_id(supplied))
        current_ids == Range(_pluck_id(current_fields))
        fresh(f) == f.id \notin current_ids
        declared_new == SelectSeq(supplied, fresh)
        new_fields == [i \in DOMAIN declared_new |->
                          Typed(declared_new[i], records)]
                      \o ExtraFields(records, field_ids)
        new_ids == Range(_pluck_id(new_fields))
        adds == [i \in DOMAIN new_fields |-> AddColumn(new_fields[i])]
        gone == IF data_dict.delete_fields
                   THEN Ordered((current_ids \ field_ids) \ new_ids) ELSE <<>>
        drops == [i \in DOMAIN gone |-> Sql("DROP COLUMN", gone[i])]
    IN  IF check_fields(supplied) # NoError THEN Raise(w, check_fields(supplied))
        ELSE IF NotGuessable(declared_new, records) # {}
           THEN Raise(w, ValidationError("fields", "type not guessable", -1,
                                         "none", -1))
        ELSE ExecuteAlter(w, res, adds \o drops, 1)

\* create_table(context, data_dict, plugin_data), in the transaction w
create_table(w, data_dict) ==
    LET res == data_dict.resource_id
        supplied == data_dict.fields
        records == data_dict.records
        field_ids == Range(_pluck_id(supplied))
        fields == [i \in DOMAIN supplied |-> Typed(supplied[i], records)]
                  \o ExtraFields(records, field_ids)
        ids == _pluck_id(fields)
        sql == <<Sql("CREATE TABLE", res)>>
        tbl == [exists |-> TRUE,
                columns |-> [i \in DOMAIN fields |->
                               [id |-> fields[i].id,
                                type |-> pg_type(fields[i].type)]],
                rows |-> {}, serial |-> 0, indexes |-> <<PkeyIndex>>,
                triggers |-> <<>>]
    IN  IF check_fields(supplied) # NoError THEN Raise(w, check_fields(supplied))
        ELSE IF NotGuessable(supplied, records) # {}
           THEN Raise(w, ValidationError("fields", "type not guessable", -1,
                                         "none", -1))
        ELSE IF Cardinality(field_ids) # Len(supplied)
           THEN Raise(w, ValidationError("field", "Duplicate column names",
                                         -1, "none", -1))
        ELSE IF \E v \in w.d.views : v.name = res
           THEN Reject(w, duplicate_table, sql)
        ELSE IF Range(ids) \cap {"_id", "_full_text"} # {}
           THEN Reject(w, duplicate_column, sql)
        ELSE Txn([w.d EXCEPT !.tables[res] = tbl], w.err, w.aborted,
                 w.stmts \o sql)

----------------------------------------------------------------------------
(* Schema manager: triggers and aliases *)

\* the trigger functions the database has
Functions == {"f1", "f2"}

\* 't%03d' % i
TriggerName(i) == <<"t000", "t001", "t002">>[i + 1]

Trigger(name, function) == [name |-> name, function |-> function]

\* _create_fulltext_trigger(connection, resource_id)
_create_fulltext_trigger(w, res) ==
    Txn([w.d EXCEPT !.tables[res].triggers =
            Append(@, Trigger("zfulltext", "populate_full_text_trigger"))],
        w.err, w.aborted, w.stmts \o <<Sql("CREATE TRIGGER", "zfulltext")>>)

\* _create_triggers(connection, resource_id, triggers): the triggers named
\* t___ are dropped and the declared ones created, in one batch; a function
\* the database does not have is a ProgrammingError
_create_triggers(w, res, triggers) ==
    LET tbl == w.d.tables[res]
        existing(t) == t.name # "zfulltext"
        system(t) == ~existing(t)
        old == SelectSeq(tbl.triggers, existing)
        new == [i \in DOMAIN triggers |-> Trigger(TriggerName(i - 1), triggers[i])]
        sql_list == [i \in DOMAIN old |-> Sql("DROP TRIGGER", old[i].name)]
                    \o [i \in DOMAIN new |-> Sql("CREATE TRIGGER", new[i].name)]
    IN  IF Range(triggers) \ Functions # {}
           THEN Txn(w.d, ValidationError("triggers", "programming error", -1,
                                         undefined_function, -1),
                    TRUE, w.stmts \o sql_list)
           ELSE Txn([w.d EXCEPT !.tables[res].triggers =
                        SelectSeq(@, system) \o new],
                    w.err, w.aborted, w.stmts \o sql_list)

\* insert_data(context, data_dict), in the transaction w
insert_data(w, data_dict) ==
    LET res == data_dict.resource_id
        t == upsert_data(w.d.tables[res], _INSERT, data_dict.records, -1)
    IN  Txn([w.d EXCEPT !.tables[res] = t.tbl], t.err,
            w.aborted \/ (t.err # NoError /\ t.err.pgcode # "none"), w.stmts)

View(name, alias_of) == [name |-> name, alias_of |-> alias_of]

\* _get_aliases(context, data_dict): the names bound to the resource
_get_aliases(d, res) == {v.name : v \in {u \in d.views : u.alias_of = res}}

\* _get_resources(context, alias): the resources the name is bound to
_get_resources(d, alias) == {v.alias_of : v \in {u \in d.views : u.name = alias}}

\* the names of the relations of the database
Relations(d) ==
    {res \in DOMAIN d.tables : d.tables[res].exists}
    \cup {v.name : v \in d.views}

\* "except DBAPIError as e" of create_alias: an engine error that is not a
\* duplicate leaves the function as if nothing had been raised
alias_except(w, err, sql) ==
    IF err.pgcode \in {duplicate_table, duplicate_alias}
       THEN Txn(w.d, ValidationError("alias", "already exists", -1,
                                     err.pgcode, -1), TRUE, w.stmts \o sql)
       ELSE Txn(w.d, NoError, TRUE, w.stmts \o sql)

\* the loop of create_alias over the requested names; with fault set the
\* statement timeout cancels the first CREATE VIEW
RECURSIVE CreateViews(_, _, _, _)
CreateViews(w, res, aliases, fault) ==
    IF aliases = <<>> THEN w
    ELSE LET alias == Head(aliases)
             sql == <<Sql("CREATE VIEW", alias)>>
         IN  IF _get_resources(w.d, alias) # {}
                THEN Raise(w, ValidationError("alias", "The alias already exists",
                                              -1, "none", -1))
             ELSE IF fault
                THEN alias_except(w, DBAPIError(query_canceled), sql)
             ELSE IF alias \in Relations(w.d)
                THEN alias_except(w, DBAPIError(duplicate_table), sql)
             ELSE CreateViews(
                      Txn([w.d EXCEPT !.views = @ \cup {View(alias, res)}],
                          w.err, w.aborted, w.stmts \o sql),
                      res, Tail(aliases), fault)

\* create_alias(context, data_dict), in the transaction w
create_alias(w, data_dict) ==
    LET res == data_dict.resource_id
        aliases == data_dict.aliases
        previous_aliases == Ordered(_get_aliases(w.d, res))
        dropped ==
            Txn([w.d EXCEPT !.views = {v \in @ : v.alias_of # res}], w.err,
                w.aborted,
                w.stmts \o [i \in DOMAIN previous_aliases |->
                              Sql("DROP VIEW", previous_aliases[i])])
    IN  IF ~Given(data_dict, "aliases") THEN w
        ELSE CreateViews(dropped, res, aliases, data_dict.fault = "create_view")

----------------------------------------------------------------------------
(* create *)

\* the state of the transaction when create() leaves its try statement.
\* trans.commit() of a transaction the engine has aborted ends it as a
\* rollback and raises nothing.
create_trans(err, aborted) ==
    IF err = NoError THEN (IF aborted THEN "rolled_back" ELSE "committed")
    ELSE IF err.exc = "DBAPIError" THEN "active"
    ELSE "rolled_back"

\* the committed database after the transaction of create() ended: what it
\* did is there only if it was committed, but the sequence values it drew
\* from the sequence of a table that was there before are never given back
PersistAll(d, res, work, trans) ==
    IF trans = "committed" THEN work
    ELSE IF d.tables[res].exists
       THEN [d EXCEPT !.tables[res].serial = work.tables[res].serial]
    ELSE d

\* a step of the body of the try statement: it runs unless an earlier one
\* has raised
TableStep(w, data_dict) ==
    IF w.d.tables[data_dict.resource_id].exists
       THEN alter_table(w, data_dict)
       ELSE Unless(create_table(w, data_dict), _create_fulltext_trigger(
                create_table(w, data_dict), data_dict.resource_id))

TriggersStep(w, data_dict) ==
    IF w.err # NoError \/ ~Given(data_dict, "triggers") THEN w
    ELSE _create_triggers(w, data_dict.resource_id, data_dict.triggers)

InsertStep(w, data_dict) ==
    IF w.err # NoError THEN w ELSE insert_data(w, data_dict)

IndexesStep(w, data_dict) ==
    IF w.err # NoError THEN w ELSE create_indexes(w, data_dict)

AliasStep(w, data_dict) ==
    IF w.err # NoError THEN w ELSE create_alias(w, data_dict)

\* the body of the try statement of create(), up to trans.commit()
create_body(d, data_dict) ==
    AliasStep(IndexesStep(InsertStep(TriggersStep(
        TableStep(Txn(d, NoError, FALSE, <<>>), data_dict),
        data_dict), data_dict), data_dict), data_dict)

\* create() from the end of the body of its try statement, left in the state
\* w, to its return: the committed database and what the caller gets
create_end(d, res, w) ==
    [db |-> PersistAll(d, res, w.d, close(create_trans(w.err, w.aborted))),
     out |-> [err |-> translate(w.err),
              trans |-> close(create_trans(w.err, w.aborted)),
              work |-> w.d, stmts |-> w.stmts]]

\* DatastorePostgresqlBackend.create(context, data_dict, plugin_data)
create(d, data_dict) ==
    create_end(d, data_dict.resource_id, create_body(d, data_dict))

----------------------------------------------------------------------------
(* The requests to create().  Each specification below draws them from a  *)
(* set of its own.                                                         *)

\* the longest list of declared indexes, the most columns of one
MaxIndexes == 1
MaxIndexCols == 2

Seqs(S, n) == UNION {[1..m -> S] : m \in 0..n}

\* an entry a request may leave out: no value, or one of S
Optional(S) == {{}} \cup {{x} : x \in S}

Entry(key, value) == [k \in (IF value = {} THEN {} ELSE {key}) |->
                        CHOOSE x \in value : TRUE]

\* the data_dict of a create request; fault is not part of it: it names the
\* statement of the call that the statement timeout cancels
DataDict(res, fields, records, delete_fields, triggers, indexes, primary_key, aliases, fault) ==
    [op |-> "create", resource_id |-> res, fields |-> fields,
     records |-> records, delete_fields |-> delete_fields, fault |-> fault]
    @@ Entry("triggers", triggers) @@ Entry("indexes", indexes)
    @@ Entry("primary_key", primary_key) @@ Entry("aliases", aliases)

NoDb == [tables |-> [r \in {"r1", "r2"} |-> NoTable], views |-> {}]
NoCreateOut == [err |-> NoError, trans |-> "none", work |-> NoDb, stmts |-> <<>>]

\* the call data_dict has ended with the result r
Called(data_dict, r) ==
    /\ r.out.work.tables[data_dict.resource_id].serial <= MaxSerial
    /\ db' = r.db
    /\ call' = data_dict
    /\ pre' = db
    /\ out' = r.out

\* a create call, from the request to the result the caller gets
Create(data_dict) == Called(data_dict, create(db, data_dict))

\* the caller has taken the result of the create call
ReturnCreate ==
    /\ call # NoCall
    /\ call' = NoCall
    /\ out' = NoCreateOut
    /\ pre' = db
    /\ UNCHANGED db

----------------------------------------------------------------------------
(* create_indexes on one resource with the columns a, b and j *)

ColumnA == [id |-> "a", type |-> "text"]
ColumnB == [id |-> "b", type |-> "int4"]
ColumnJ == [id |-> "j", type |-> "nested"]

\* the declarations of an index or of a primary key: lists of columns of
\* the table (the empty list, a column twice and the nested column
\* included), and zz, which is no column of the table
IndexFields == {"a", "b", "j"}

IndexDecls == Seqs(IndexFields, MaxIndexCols) \cup {<<"zz">>}

\* the full-text index create_indexes has built on a column
FtsIndex(id) == Index(<<"fts", id>>, FALSE, FALSE, <<id>>, <<>>)

\* the indexes of the table after it was created, and those with a full-text
\* index on b, left by a version that indexed every column
CreatedIndexes == <<PkeyIndex, FtsIndex("_full_text"), FtsIndex("a")>>
LegacyIndexes == Append(CreatedIndexes, FtsIndex("b"))

InitIndex ==
    /\ \E indexes \in {CreatedIndexes, LegacyIndexes} :
          db = [tables |->
                  [r \in {"r1", "r2"} |->
                      IF r = "r1"
                         THEN WriteTable(<<ColumnA, ColumnB, ColumnJ>>, indexes)
                         ELSE NoTable],
                views |-> {}]
    /\ call = NoCall
    /\ pre = db
    /\ out = NoCreateOut

NextIndex ==
    \/ /\ call = NoCall
       /\ \E indexes \in Optional(Seqs(IndexDecls, MaxIndexes)),
             primary_key \in Optional(IndexDecls) :
            Create(DataDict("r1", <<>>, <<>>, FALSE, {}, indexes,
                            primary_key, {}, "none"))
    \/ ReturnCreate

SpecIndex == InitIndex /\ [][NextIndex]_vars

----------------------------------------------------------------------------
(* alter_table on one resource that has the columns a and b *)

\* the most fields a request declares
MaxFields == 2

\* the declared fields: of a column of the table or of c, with a type or not
FieldDecls ==
    {[id |-> id] : id \in {"a", "b", "c"}}
    \cup {[id |-> id, type |-> "text"] : id \in {"a", "b", "c"}}

\* the records of a request: none, or one whose keys are columns or not
AlterRecords ==
    {<<>>} \cup {<<[key \in keys |-> 1]>> : keys \in SUBSET {"_id", "b", "c"}}

InitAlter ==
    /\ db = [tables |->
               [r \in {"r1", "r2"} |->
                   IF r = "r1"
                      THEN WriteTable(<<ColumnA, ColumnB>>, CreatedIndexes)
                      ELSE NoTable],
             views |-> {}]
    /\ call = NoCall
    /\ pre = db
    /\ out = NoCreateOut

NextAlter ==
    \/ /\ call = NoCall
       /\ \E fields \in Seqs(FieldDecls, MaxFields), records \in AlterRecords,
             delete_fields \in BOOLEAN :
            Create(DataDict("r1", fields, records, delete_fields, {}, {}, {},
                            {}, "none"))
    \/ ReturnCreate

SpecAlter == InitAlter /\ [][NextAlter]_vars

----------------------------------------------------------------------------
(* create on two resources, with records, triggers, a primary key, aliases *)
(* and the statement timeout                                               *)

\* the most aliases a request asks for
MaxAliases == 2

\* the names a request may ask for as aliases: x, and the name of a resource
AliasNames == {"x", "r2"}

AliasLists == Seqs(AliasNames, MaxAliases)

\* the trigger lists of a request: nofn is no function of the database
TriggerLists == {<<"f1">>, <<"nofn">>}

\* the statement of the call that the statement timeout cancels
CreateFaults == {"none", "create_index", "create_view"}

InitCreate ==
    /\ db = NoDb
    /\ call = NoCall
    /\ pre = db
    /\ out = NoCreateOut

\* the requests on r1 vary in every entry, those on r2 in the aliases
NextCreate ==
    \/ /\ call = NoCall
       /\ \E fields \in {<<>>, <<ColumnB>>}, records \in {<<>>, <<[b |-> 1]>>},
             triggers \in Optional(TriggerLists),
             primary_key \in Optional({<<"b">>}),
             aliases \in Optional(AliasLists), fault \in CreateFaults :
            Create(DataDict("r1", fields, records, FALSE, triggers, {},
                            primary_key, aliases, fault))
    \/ /\ call = NoCall
       /\ \E aliases \in Optional(AliasLists), fault \in CreateFaults :
            Create(DataDict("r2", <<ColumnB>>, <<>>, FALSE, {}, {}, {},
                            aliases, fault))
    \/ ReturnCreate

SpecCreate == InitCreate /\ [][NextCreate]_vars

----------------------------------------------------------------------------
(* Properties of create_indexes *)

CreateCall == call.op = "create"

\* the call returned normally and its transaction was committed
Committed == out.err = NoError /\ out.trans = "committed"

IndexStmts(stmts) ==
    LET on_index(sql) == sql.op \in {"CREATE INDEX", "DROP INDEX"}
    IN  SelectSeq(stmts, on_index)

\* the statements of a second call with the declarations of the call that
\* has just returned
SecondCall == create(db, call).out.stmts

\* C6: a second consecutive create_indexes call with unchanged fields and
\* unchanged declarations of indexes and primary_key issues no CREATE INDEX
\* and no DROP INDEX statement, whatever the shape of the declaration
C6_SecondCallIssuesNothing ==
    (CreateCall /\ Committed) => IndexStmts(SecondCall) = <<>>

UniqueIndexes(tbl) ==
    {i \in DOMAIN tbl.indexes : tbl.indexes[i].unique /\ ~tbl.indexes[i].primary}

\* the columns of the live unique key
LiveUniqueKey(tbl) ==
    UNION {Range(tbl.indexes[i].cols) : i \in UniqueIndexes(tbl)}

\* C7: after a successful create_indexes call the resource has at most one
\* unique non-primary index, and when the call declared a primary_key the
\* columns of the live unique key are the declared ones
C7_OneUniqueKeyAsDeclared ==
    (CreateCall /\ Committed) =>
        /\ Cardinality(UniqueIndexes(Tbl)) <= 1
        /\ Given(call, "primary_key") =>
              LiveUniqueKey(Tbl) = Range(call.primary_key)

----------------------------------------------------------------------------
(* Properties of create and create_alias *)

\* the content of a database: its tables without their sequences, its views
DbContent(d) ==
    [tables |-> [r \in DOMAIN d.tables |-> Content(d.tables[r])],
     views |-> d.views]

\* C5: create is atomic.  If a step of the call raised, nothing the call did
\* is in the database afterwards; if the call returned normally, everything
\* its transaction did is.
C5_CreateIsAtomic ==
    CreateCall =>
        /\ out.err # NoError => DbContent(db) = DbContent(pre)
        /\ out.err = NoError => db = out.work

AliasesOf(d, res) == {v.name : v \in {u \in d.views : u.alias_of = res}}

\* a requested alias is bound to another resource when the call starts
AliasConflict ==
    /\ Given(call, "aliases")
    /\ \E v \in pre.views :
          v.name \in Range(call.aliases) /\ v.alias_of # call.resource_id

\* C8: every alias name is bound to one resource.  A create call for R that
\* asks for an alias bound to another resource raises and leaves every
\* binding as it was; one that returns normally leaves R with exactly the
\* requested aliases, or with its previous ones when it asked for none.
C8_AliasBindings ==
    CreateCall =>
        /\ \A v1, v2 \in db.views : v1.name = v2.name => v1 = v2
        /\ AliasConflict => (out.err # NoError /\ db.views = pre.views)
        /\ (~AliasConflict /\ out.err = NoError) =>
              AliasesOf(db, call.resource_id) =
                 IF Given(call, "aliases") THEN Range(call.aliases)
                 ELSE AliasesOf(pre, call.resource_id)

----------------------------------------------------------------------------
(* Properties of alter_table *)

AddedIds(stmts) ==
    {stmts[i].name : i \in {j \in DOMAIN stmts : stmts[j].op = "ADD"}}

DroppedIds(stmts) ==
    {stmts[i].name : i \in {j \in DOMAIN stmts : stmts[j].op = "DROP COLUMN"}}

DeclaredIds == Range(_pluck_id(call.fields))

\* C9: every ADD statement alter_table issues names a column the live table
\* does not have, and no statement changes the type of a column
C9_AddsOnlyNewColumns ==
    CreateCall =>
        /\ AddedIds(out.stmts) \cap AllColumnIds(PreTbl) = {}
        /\ \A i \in DOMAIN out.stmts : out.stmts[i].op # "ALTER COLUMN TYPE"

\* alter_table raised before it put its statements together
AlterRaised == out.err.exc = "ValidationError" /\ out.err.key = "fields"

\* the columns the claim has alter_table drop, for any declared field list
AbsentColumns ==
    IF call.delete_fields
       THEN (ColumnIds(PreTbl) \ DeclaredIds) \ AddedIds(out.stmts)
       ELSE {}

\* C10 as claimed: with delete_fields set alter_table drops exactly the live
\* columns that are neither declared nor newly added, for any declared field
\* list, and with the flag unset it drops none
C10_DropsAbsentColumns_AnyList ==
    CreateCall =>
        /\ ~AlterRaised => DroppedIds(out.stmts) = AbsentColumns
        /\ Committed => ColumnIds(PreTbl) \ ColumnIds(Tbl) = AbsentColumns

\* C10: with delete_fields set and a declared field list that is not empty,
\* alter_table drops exactly the live columns that are neither declared nor
\* newly added; with the flag unset, or with no declared field (the live
\* columns then stand for the declared ones), it drops none
C10_DropsAbsentColumns ==
    LET expected == IF call.fields # <<>> THEN AbsentColumns ELSE {}
    IN  CreateCall =>
            /\ ~AlterRaised => DroppedIds(out.stmts) = expected
            /\ AlterRaised => DroppedIds(out.stmts) = {}
            /\ Committed => ColumnIds(PreTbl) \ ColumnIds(Tbl) = expected

\* a committed call that declared c, added it and dropped the live column b,
\* which it did not declare
C10_Witness ==
    /\ CreateCall /\ Committed /\ call.delete_fields
    /\ "c" \in AddedIds(out.stmts)
    /\ DroppedIds(out.stmts) = {"b"}
    /\ "b" \in ColumnIds(PreTbl) /\ "b" \notin ColumnIds(Tbl)
    /\ "a" \in ColumnIds(Tbl)


----------------------------------------------------------------------------
(* Properties of the sessions of the mutation calls *)

\* the call that has just ended asked for a dry run
DryRun == Given(call, "dry_run") /\ call.dry_run

\* C11: a mutation call ends with its transaction committed or rolled back;
\* the transaction is committed exactly when the call completed without an
\* exception and no dry run was requested, and after a rollback the content
\* of the database is what it was before the call
C11_TransactionEnds ==
    call # NoCall =>
        /\ out.trans \in {"committed", "rolled_back"}
        /\ out.trans = "committed" <=> (out.err = NoError /\ ~DryRun)
        /\ out.trans = "rolled_back" => DbContent(db) = DbContent(pre)

\* the exceptions of the error taxonomy
Taxonomy == {"ValidationError", "NotAuthorized"}

\* C12: an engine exception raised while a call executes reaches the caller
\* as one of the taxonomy errors: the caller never gets the raw engine
\* exception, and a call whose statement the engine failed never returns
\* as if the statement had succeeded
C12_EngineErrorsTranslated ==
    call # NoCall =>
        /\ out.err.exc \in Taxonomy \cup {"none"}
        /\ out.err = NoError => out.work = db


\* the statement timeout cancelled a statement of the call (engine code
\* 57014): the error the caller gets, if any, carries the code
TimedOut == call # NoCall /\ out.err.pgcode = query_canceled

\* C13: a statement timeout raised by any statement of a call, a write
\* statement of upsert_data included, reaches the caller as the "took too
\* long" error under the key 'query'
C13_TimeoutIsQueryError ==
    TimedOut =>
        /\ out.err.exc = "ValidationError"
        /\ out.err.key = "query"
        /\ out.err.msg = "Query took too long"


----------------------------------------------------------------------------
(* search *)

Min(a, b) == IF a < b THEN a ELSE b

\* _get_fields_types(connection, resource_id): the columns of _get_fields
\* with _id put first
_get_fields_types(tbl) == <<[id |-> "_id", type |-> "int"]>> \o _get_fields(tbl)

\* _where_clauses(data_dict, fields_types) for a request without q and
\* full_text: one clause "field = value" for each filter on a known field
_where_clauses(data_dict, fields_types) ==
    LET filters == data_dict.filters
        known(f) == f \in DOMAIN filters
        fields == SelectSeq(_pluck_id(fields_types), known)
    IN  [i \in DOMAIN fields |-> [field |-> fields[i], value |-> filters[fields[i]]]]

\* DatastorePostgresqlBackend.datastore_search(context, data_dict,
\* fields_types, query_dict) for a request without q, full_text and sort
datastore_search(data_dict, fields_types) ==
    [select |-> IF Given(data_dict, "fields") /\ data_dict.fields # <<>>
                   THEN data_dict.fields ELSE _pluck_id(fields_types),
     distinct |-> data_dict.distinct,
     sort |-> <<>>,
     where |-> _where_clauses(data_dict, fields_types),
     limit |-> data_dict.limit,
     offset |-> data_dict.offset]

\* the rows of the table that satisfy every clause of WHERE ... AND ...
Where(rows, where) ==
    {r \in rows : \A i \in DOMAIN where : r[where[i].field] = where[i].value}

\* ORDER BY _id
OrderById(rows) ==
    [i \in 1..Cardinality(rows) |->
        CHOOSE r \in rows : Cardinality({q \in rows : q._id < r._id}) = i - 1]

\* an OFFSET that skips one row more than it is told
LimitOffset_SkipsOneMore(s, limit, offset) ==
    SubSeq(s, offset + 2, Min(offset + 1 + limit, Len(s)))

\* LIMIT limit OFFSET offset of an ordered result: offset rows are skipped,
\* the next limit rows are given
LimitOffset(s, limit, offset) == SubSeq(s, offset + 1, Min(offset + limit, Len(s)))

\* SELECT select FROM one row
Select(row, select) == [f \in Range(select) |-> row[f]]

\* the sequences that list every element of S once
Orderings(S) ==
    {s \in [1..Cardinality(S) -> S] : \A i, j \in DOMAIN s : i # j => s[i] # s[j]}

\* the results the engine may give for the records query of search_data,
\*   SELECT {distinct} {select} FROM (SELECT * FROM {resource} {where}
\*                                    {sort} LIMIT {limit} OFFSET {offset})
\* Without DISTINCT the sort is ORDER BY _id and the result is one sequence.
\* With DISTINCT and no sort there is no ORDER BY: the inner query gives any
\* rows of the right number and the outer one puts them in any order.
RecordsQuery(tbl, query_dict) ==
    LET matching == Where(tbl.rows, query_dict.where)
        page == LimitOffset(OrderById(matching), query_dict.limit, query_dict.offset)
        selected(S) == {Select(r, query_dict.select) : r \in S}
    IN  IF ~query_dict.distinct
           THEN {[i \in DOMAIN page |-> Select(page[i], query_dict.select)]}
           ELSE UNION {Orderings(selected(S)) :
                          S \in {T \in SUBSET matching : Cardinality(T) = Len(page)}}

\* SELECT count(*) FROM (SELECT {distinct} {select} FROM {resource} {where})
CountQuery(tbl, query_dict) ==
    LET matching == Where(tbl.rows, query_dict.where)
    IN  IF query_dict.distinct
           THEN Cardinality({Select(r, query_dict.select) : r \in matching})
           ELSE Cardinality(matching)

\* the query arguments of a link: arguments with offset set to value
WithOffset(arguments, value) ==
    [a \in DOMAIN arguments \cup {"offset"} |->
        IF a = "offset" THEN value ELSE arguments[a]]

\* _insert_links(data_dict, limit, offset): the value of data_dict['_links'].
\* url holds the query arguments of CKAN_CURRENT_URL, or nothing when the
\* call is a local action without a request.
_insert_links(url, limit, offset) ==
    IF url = {} THEN <<>>
    ELSE LET arguments == CHOOSE a \in url : TRUE
         IN  [start |-> [a \in DOMAIN arguments \ {"offset"} |-> arguments[a]],
              next |-> WithOffset(arguments, offset + limit)]
             @@ (IF offset - limit > 0
                    THEN [prev |-> WithOffset(arguments, offset - limit)]
                    ELSE <<>>)

\* an estimate that is used whatever the query is
use_estimate_AnyQuery(data_dict, query_dict) ==
    Given(data_dict, "total_estimation_threshold")

\* "if total_estimation_threshold is not None and not (where_clause or
\* distinct)": the estimate of pg_class is read
use_estimate(data_dict, query_dict) ==
    /\ Given(data_dict, "total_estimation_threshold")
    /\ ~(query_dict.where # <<>> \/ query_dict.distinct)

\* the entries total and total_was_estimated of the result; reltuples is the
\* row count pg_class holds for the table
Total(tbl, reltuples, data_dict, query_dict) ==
    IF ~data_dict.include_total THEN <<>>
    ELSE IF /\ use_estimate(data_dict, query_dict)
            /\ reltuples >= data_dict.total_estimation_threshold
       THEN [total |-> reltuples, total_was_estimated |-> TRUE]
    ELSE [total |-> CountQuery(tbl, query_dict), total_was_estimated |-> FALSE]

\* search_data(context, data_dict) with records_format 'objects'; records is
\* the result the engine gave for the records query
search_data(tbl, reltuples, data_dict, url, records) ==
    [records |-> records,
     _links |-> _insert_links(url, data_dict.limit, data_dict.offset)]
    @@ Total(tbl, reltuples, data_dict, datastore_search(data_dict, _get_fields_types(tbl)))

\* search(context, data_dict); with fault set the statement timeout cancels
\* the records query
search(d, data_dict, url, records, fault) ==
    IF fault
       THEN [err |-> ValidationError("query", "Search took too long", -1,
                                     query_canceled, -1),
             trans |-> "none", work |-> NoTable]
       ELSE [err |-> NoError, trans |-> "none", work |-> NoTable,
             result |-> search_data(d.tables[data_dict.resource_id],
                                    d.reltuples[data_dict.resource_id],
                                    data_dict, url, records)]


----------------------------------------------------------------------------
(* search on one resource with the column k, whose rows are loaded one by *)
(* one and whose statistics the engine refreshes now and then             *)

\* the most rows the resource holds
MaxRows == 5

\* the thresholds a request may set: one every estimate meets, one in the
\* middle of the row counts
Thresholds == {0, 3}

\* the data_dict of a search request; url and fault are not part of it: url
\* holds the query arguments of the request URL, fault tells whether the
\* statement timeout cancels the records query
SearchDict(filters, fields, distinct, limit, offset, include_total, threshold, url, fault) ==
    [op |-> "search", resource_id |-> "r1", filters |-> filters,
     distinct |-> distinct, limit |-> limit, offset |-> offset,
     include_total |-> include_total, url |-> url, fault |-> fault]
    @@ Entry("fields", fields) @@ Entry("total_estimation_threshold", threshold)

InitSearch ==
    /\ db = [tables |-> [r \in {"r1"} |-> WriteTable(<<ColumnK>>, <<PkeyIndex>>)],
             reltuples |-> [r \in {"r1"} |-> -1]]
    /\ call = NoCall
    /\ pre = db
    /\ out = NoOut

\* an insert call with one record
Load(record) ==
    LET data_dict == [op |-> "upsert", resource_id |-> "r1", method |-> _INSERT,
                      records |-> <<record>>, dry_run |-> FALSE, fault |-> -1]
        r == upsert(db, data_dict, -1)
    IN  /\ r.out.work.serial <= MaxRows
        /\ db' = r.db
        /\ call' = data_dict
        /\ pre' = db
        /\ out' = r.out

\* ANALYZE / autovacuum of the engine: pg_class.reltuples becomes the row
\* count of the table
Analyze ==
    /\ db.reltuples["r1"] # Cardinality(db.tables["r1"].rows)
    /\ db' = [db EXCEPT !.reltuples["r1"] = Cardinality(db.tables["r1"].rows)]
    /\ UNCHANGED <<call, pre, out>>

\* the search call data_dict has ended with the result r
Searched(data_dict, r) ==
    /\ call' = data_dict
    /\ pre' = db
    /\ out' = r
    /\ UNCHANGED db

\* a search call, from the request to the result the caller gets
Search(data_dict) ==
    \E records \in RecordsQuery(db.tables["r1"], datastore_search(data_dict, _get_fields_types(db.tables["r1"]))) :
        Searched(data_dict, search(db, data_dict, data_dict.url, records, data_dict.fault))

\* the requests vary in every entry; DISTINCT is asked for with a field
\* list only, the statement timeout strikes a plain request
NextSearch ==
    \/ /\ call = NoCall
       /\ \E v \in Vals : Load([k |-> v])
    \/ /\ call = NoCall
       /\ Analyze
    \/ /\ call = NoCall
       /\ \E filters \in {<<>>, [k |-> 1]}, fields \in Optional({<<"k">>}),
             limit \in {2, 3}, offset \in {0, 2}, include_total \in BOOLEAN,
             threshold \in Optional(Thresholds) :
            \E distinct \in (IF fields = {} THEN {FALSE} ELSE BOOLEAN),
               url \in Optional({[limit |-> limit], [limit |-> limit, offset |-> offset]}) :
                Search(SearchDict(filters, fields, distinct, limit, offset,
                                  include_total, threshold, url, FALSE))
    \/ /\ call = NoCall
       /\ Search(SearchDict(<<>>, {}, FALSE, 2, 0, TRUE, {}, {}, TRUE))
    \/ Return

SpecSearch == InitSearch /\ [][NextSearch]_vars


----------------------------------------------------------------------------
(* Properties of search *)

SearchCall == call.op = "search"

\* the search call returned a result
Returned == SearchCall /\ out.err = NoError

\* the columns the request asks for
Asked == IF Given(call, "fields") THEN call.fields ELSE <<"_id", "k">>

\* the rows of the resource that pass the filters of the request
Filtered == {r \in Tbl.rows : \A f \in DOMAIN call.filters : r[f] = call.filters[f]}

\* the exact COUNT(*) of the filtered query
ExactCount ==
    IF call.distinct THEN Cardinality({Select(r, Asked) : r \in Filtered})
    ELSE Cardinality(Filtered)

\* the row count the planner statistics hold for the resource
Estimate == db.reltuples["r1"]

\* the threshold is set, nothing filters, and the estimate reaches it
EstimateGate ==
    /\ Given(call, "total_estimation_threshold")
    /\ DOMAIN call.filters = {}
    /\ ~call.distinct
    /\ Estimate >= call.total_estimation_threshold

\* C14: with include_total on, search returns total_was_estimated = true and
\* total = the estimated row count if and only if the threshold is set, no
\* WHERE clause and no DISTINCT is active and the estimate meets or exceeds
\* the threshold; in every other case total is the exact count of the
\* filtered query and total_was_estimated = false
C14_EstimationGating ==
    (Returned /\ call.include_total) =>
        IF EstimateGate
           THEN out.result.total_was_estimated /\ out.result.total = Estimate
           ELSE ~out.result.total_was_estimated /\ out.result.total = ExactCount

\* a search returned a stale estimate as its total
C14_Witness ==
    /\ Returned /\ call.include_total
    /\ out.result.total_was_estimated
    /\ out.result.total # ExactCount
    /\ call.total_estimation_threshold > 0

\* search(limit=2, offset=2) on the 5-row resource with no filters
PageCall ==
    /\ Returned
    /\ call.limit = 2 /\ call.offset = 2
    /\ DOMAIN call.filters = {} /\ ~call.distinct
    /\ Cardinality(Tbl.rows) = 5

\* the row at the 0-indexed position i of the resource in _id order, with
\* the columns the request asks for
Row(i) == Select(OrderById(Tbl.rows)[i + 1], Asked)

NextLink == out.result._links.next

\* C15 as stated: the call returns the rows 3 and 4 (0-indexed) and a
\* _links.next pointing at offset=4
C15_Page_Rows3To4 ==
    PageCall =>
        /\ out.result.records = <<Row(3), Row(4)>>
        /\ "next" \in DOMAIN out.result._links
        /\ NextLink.offset = 4

\* C15: the call returns the rows 2 and 3 (0-indexed), the third and the
\* fourth row, and when it is made for a request with a URL a _links.next
\* pointing at offset=4
C15_Page ==
    PageCall =>
        /\ out.result.records = <<Row(2), Row(3)>>
        /\ call.url # {} =>
              /\ "next" \in DOMAIN out.result._links
              /\ NextLink.offset = 4

C15_Witness ==
    /\ PageCall
    /\ call.url # {}
    /\ out.result.records = <<Row(2), Row(3)>>
    /\ NextLink.offset = 4


----------------------------------------------------------------------------
(* Two writers on one resource with the unique key {k}.  Each upsert call *)
(* runs in a transaction of its own; the engine runs the statements of    *)
(* the two transactions in any order, at its default isolation level READ *)
(* COMMITTED: a statement sees what was committed when it started and     *)
(* what its own transaction wrote.                                        *)

Writers == {1, 2}

Other(p) == 3 - p

\* a writer between two calls, and what it holds then
Idle == [op |-> "none", pc |-> "idle"]
NoWrite == [err |-> NoError, trans |-> "none", own |-> {}, attempted |-> FALSE, inserted |-> FALSE]

\* the transaction of writer p is open
Active(p) == call[p].pc \notin {"idle", "done"}

\* the table as a statement of writer p sees it: the committed rows, with
\* the rows p wrote in place of their committed versions
Visible(p) ==
    [db.tables["r1"] EXCEPT
        !.rows = {r \in @ : r._id \notin {o._id : o \in out[p].own}} \cup out[p].own]

\* a unique index that does not look at the rows of open transactions
Blocked_Never(p, row) == FALSE

\* the row p is about to insert conflicts in a unique index with a row that
\* the other transaction wrote and has not committed: the statement of p
\* waits until the other transaction ends
Blocked(p, row) ==
    /\ Active(Other(p))
    /\ UniqueViolated(out[Other(p)].own \cup {row}, db.tables["r1"].indexes)

\* the state of the writers after writer p took a step
Step(p, c, o) ==
    /\ call' = [call EXCEPT ![p] = c]
    /\ out' = [out EXCEPT ![p] = o]
    /\ UNCHANGED pre

InitWriters ==
    /\ db = [tables |-> [r \in {"r1"} |->
                WriteTable(<<ColumnK, ColumnN>>, <<PkeyIndex, UniqueIndexK>>)]]
    /\ call = [p \in Writers |-> Idle]
    /\ out = [p \in Writers |-> NoWrite]
    /\ pre = db

\* upsert() to trans = connection.begin(), and upsert_data to its first
\* write statement.  fresh: no committed row has the key value of the
\* record; overlap: the transaction of the other writer is open.
Begin(p, method, record) ==
    /\ call[p].pc = "idle"
    /\ db.tables["r1"].serial + Cardinality({q \in Writers : Active(q)}) < MaxSerial
    /\ call' = [q \in Writers |->
                 IF q = p
                    THEN [op |-> "upsert", method |-> method, record |-> record,
                          pc |-> IF method = _INSERT THEN "check" ELSE "update",
                          fresh |-> \A r \in db.tables["r1"].rows : r.k # record.k,
                          overlap |-> Active(Other(p))]
                    ELSE call[q]]
    /\ out' = [out EXCEPT ![p] = [NoWrite EXCEPT !.trans = "active"]]
    /\ UNCHANGED <<db, pre>>

\* the UPDATE of an upsert call.  A row it hits that the other transaction
\* wrote and has not committed is locked: the statement waits.
Update(p) ==
    LET record == call[p].record
        view == Visible(p)
        unique_keys == _get_unique_key(view)
        keys == KeyCols(record, unique_keys)
        vals == KeyVals(record, unique_keys)
        hit == {r \in view.rows : KeyMatch(r, keys, vals)}
        unchanged == view.rows \ hit
        u == UpdateRows(view, DOMAIN record, record, keys, vals)
    IN  /\ call[p].pc = "update"
        /\ \A r \in hit : r._id \notin {o._id : o \in out[Other(p)].own}
        /\ u.pgcode = "none"
        /\ Step(p, [call[p] EXCEPT !.pc = "insert"],
                [out[p] EXCEPT !.own = (@ \cap unchanged) \cup (u.tbl.rows \ unchanged)])
        /\ UNCHANGED db

\* the INSERT ... WHERE NOT EXISTS of an upsert call starts: its subquery is
\* evaluated on what the statement sees
InsertStart(p) ==
    LET record == call[p].record
        view == Visible(p)
        unique_keys == _get_unique_key(view)
        exists == \E r \in view.rows :
                      KeyMatch(r, KeyCols(record, unique_keys), KeyVals(record, unique_keys))
    IN  /\ call[p].pc = "insert"
        /\ Step(p, [call[p] EXCEPT !.pc = IF exists THEN "commit" ELSE "check"], out[p])
        /\ UNCHANGED db

\* the row of an INSERT reaches the unique index: it is inserted, or the
\* engine raises unique_violation, which upsert_data turns into a
\* validation error and upsert() answers with trans.rollback()
InsertCheck(p) ==
    LET record == call[p].record
        view == Visible(p)
        r == InsertRow(view, DOMAIN record, record)
        row == [c \in {"_id"} \cup ColumnIds(view) |->
                  IF c = "_id" THEN r.tbl.serial ELSE record[c]]
    IN  /\ call[p].pc = "check"
        /\ ~Blocked(p, row)
        /\ db' = [db EXCEPT !.tables["r1"].serial = r.tbl.serial]
        /\ IF r.pgcode = "none"
              THEN Step(p, [call[p] EXCEPT !.pc = "commit"],
                        [out[p] EXCEPT !.own = @ \cup {row}, !.attempted = TRUE,
                                       !.inserted = TRUE])
              ELSE Step(p, [call[p] EXCEPT !.pc = "done"],
                        [err |-> translate(ValidationError("records", "engine", 0,
                                                           r.pgcode, 0)),
                         trans |-> "rolled_back", own |-> {}, attempted |-> TRUE,
                         inserted |-> FALSE])

\* trans.commit(), connection.close() and the return of upsert()
Commit(p) ==
    /\ call[p].pc = "commit"
    /\ db' = [db EXCEPT !.tables["r1"].rows = Visible(p).rows]
    /\ Step(p, [call[p] EXCEPT !.pc = "done"],
            [out[p] EXCEPT !.trans = "committed", !.own = {}])

\* the caller of writer p has taken the result
ReturnWriter(p) ==
    /\ call[p].pc = "done"
    /\ Step(p, Idle, NoWrite)
    /\ UNCHANGED db

NextWriters ==
    \E p \in Writers :
        \/ \E method \in {_INSERT, _UPSERT}, k \in Vals, n \in Vals :
              Begin(p, method, [k |-> k, n |-> n])
        \/ Update(p)
        \/ InsertStart(p)
        \/ InsertCheck(p)
        \/ Commit(p)
        \/ ReturnWriter(p)

SpecWriters == InitWriters /\ [][NextWriters]_vars

----------------------------------------------------------------------------
(* Properties of two writers *)

Succeeded(p) == out[p].err = NoError /\ out[p].trans = "committed"

Conflict(p) == out[p].err.exc = "ValidationError" /\ out[p].err.pgcode = unique_violation

\* two calls whose transactions overlapped have ended; both carried the
\* same key value, which no committed row had when either call began
Race ==
    /\ \A p \in Writers : call[p].pc = "done" /\ call[p].fresh
    /\ call[1].record.k = call[2].record.k
    /\ call[1].overlap \/ call[2].overlap

\* the committed rows with the key value of the two calls
RowsWithKey == {r \in db.tables["r1"].rows : r.k = call[1].record.k}

\* the calls that committed a row they inserted
Inserters == {p \in Writers : Succeeded(p) /\ out[p].inserted}

\* C16 as stated: at most one of the two calls commits an inserted row,
\* exactly one row with the key value exists afterwards, and the other call
\* fails with a uniqueness-conflict error instead of returning success
C16_NoDuplicate_OtherFails ==
    Race =>
        /\ Cardinality(Inserters) <= 1
        /\ Cardinality(RowsWithKey) = 1
        /\ \E p \in Writers : Succeeded(p) /\ Conflict(Other(p))

\* C16: at most one of the two calls commits an inserted row and exactly one
\* row with the key value exists afterwards; the other call fails with a
\* uniqueness-conflict error if it attempted its INSERT, and otherwise it
\* returns success having inserted no row
C16_NoDuplicate ==
    Race =>
        /\ Cardinality(Inserters) <= 1
        /\ Cardinality(RowsWithKey) = 1
        /\ \E p \in Writers :
              /\ p \in Inserters
              /\ IF out[Other(p)].attempted THEN Conflict(Other(p))
                 ELSE Succeeded(Other(p)) /\ ~out[Other(p)].inserted

\* both calls found no row to update, both attempted the INSERT, and the
\* second got the conflict
C16_Witness ==
    /\ Race
    /\ \A p \in Writers : call[p].method = _UPSERT /\ out[p].attempted
    /\ \E p \in Writers : Succeeded(p) /\ Conflict(Other(p))
    /\ Cardinality(RowsWithKey) = 1


----------------------------------------------------------------------------
(* The type cache.  _pg_types and _type_names are module globals shared by *)
(* the threads of the process; two callers run _cache_types in any         *)
(* interleaving of its statements against an engine whose catalog pg_type  *)
(* lacks the composite type 'nested'.                                      *)

Callers == {1, 2}

\* the types of the catalog before 'nested' is created
BaseTypes == {"int4", "text"}

duplicate_object == "42710"

InitTypes ==
    /\ db = [pg_type |-> BaseTypes, _pg_types |-> {}, _type_names |-> {}, created |-> 0]
    /\ call = [p \in Callers |-> Idle]
    /\ out = [p \in Callers |-> [err |-> NoError]]
    /\ pre = db

\* caller p has moved to pc, holding the rows results
Goto(p, pc, results) ==
    /\ call' = [call EXCEPT ![p] = [op |-> "_cache_types", pc |-> pc, results |-> results]]
    /\ UNCHANGED pre

\* a caller calls _cache_types(engine)
Enter(p) ==
    /\ call[p].pc = "idle"
    /\ Goto(p, "test", {})
    /\ UNCHANGED <<db, out>>

\* "if not _pg_types:"; a cache that holds anything is taken as filled
Test(p) ==
    /\ call[p].pc = "test"
    /\ Goto(p, IF db._pg_types = {} THEN "select" ELSE "done", {})
    /\ UNCHANGED <<db, out>>

\* SELECT oid, typname FROM pg_type
SelectTypes(p) ==
    /\ call[p].pc = "select"
    /\ Goto(p, "fill", db.pg_type)
    /\ UNCHANGED <<db, out>>

\* one pass of "for result in results:"
Fill(p) ==
    /\ call[p].pc = "fill"
    /\ \E t \in call[p].results :
          /\ db' = [db EXCEPT !._pg_types = @ \cup {t}, !._type_names = @ \cup {t}]
          /\ Goto(p, "fill", call[p].results \ {t})
    /\ UNCHANGED out

\* "if 'nested' not in _type_names:" after the loop
Check(p) ==
    /\ call[p].pc = "fill"
    /\ call[p].results = {}
    /\ Goto(p, IF "nested" \notin db._type_names THEN "create" ELSE "register", {})
    /\ UNCHANGED <<db, out>>

\* CREATE TYPE "nested" AS (...) in a transaction of its own; the engine
\* rejects it when the type exists, and the exception leaves _cache_types
CreateType(p) ==
    /\ call[p].pc = "create"
    /\ IF "nested" \in db.pg_type
          THEN /\ Goto(p, "done", {})
               /\ out' = [out EXCEPT ![p].err = DBAPIError(duplicate_object)]
               /\ UNCHANGED db
          ELSE /\ Goto(p, "clear", {})
               /\ db' = [db EXCEPT !.pg_type = @ \cup {"nested"}, !.created = @ + 1]
               /\ UNCHANGED out

\* _pg_types.clear(), then "return _cache_types(engine)"
Clear(p) ==
    /\ call[p].pc = "clear"
    /\ db' = [db EXCEPT !._pg_types = {}]
    /\ Goto(p, "test", {})
    /\ UNCHANGED out

\* register_composite('nested', ...) and the return
Register(p) ==
    /\ call[p].pc = "register"
    /\ Goto(p, "done", {})
    /\ UNCHANGED <<db, out>>

\* the caller goes on; it may call again
ReturnCaller(p) ==
    /\ call[p].pc = "done"
    /\ call' = [call EXCEPT ![p] = Idle]
    /\ out' = [out EXCEPT ![p].err = NoError]
    /\ UNCHANGED <<db, pre>>

NextTypes ==
    \E p \in Callers :
        \/ Enter(p)
        \/ Test(p)
        \/ SelectTypes(p)
        \/ Fill(p)
        \/ Check(p)
        \/ CreateType(p)
        \/ Clear(p)
        \/ Register(p)
        \/ ReturnCaller(p)

SpecTypes == InitTypes /\ [][NextTypes]_vars

\* no caller is inside _cache_types
Quiet == \A p \in Callers : call[p].pc \in {"idle", "done"}

\* C17: when two callers run _cache_types at the same time against a
\* database that lacks 'nested', both complete without error, exactly one
\* CREATE TYPE takes effect, and afterwards the lookup of every type code
\* of the engine, that of 'nested' included, finds it in the cache
C17_CacheTypesConcurrently ==
    /\ \A p \in Callers : out[p].err = NoError
    /\ (Quiet /\ \E p \in Callers : call[p].pc = "done") =>
          /\ db.created = 1
          /\ db._pg_types # {} => db.pg_type \subseteq db._pg_types


----------------------------------------------------------------------------
(* search_sql.  Names are sequences of characters, so that startswith,    *)
(* lower and the double quotes are what they are in the code.  The SQL of *)
(* a request is given by what it refers to and what it yields: the table  *)
(* and function names found in its plan, and the rows of its result.      *)

\* str.lower() on the letters the names use
lower(name) ==
    [i \in DOMAIN name |->
        CASE name[i] = "C" -> "c" [] name[i] = "M" -> "m" [] name[i] = "P" -> "p"
          [] OTHER -> name[i]]

\* '"{}"'.format(f)
quote(f) == <<"\"">> \o f \o <<"\"">>

\* str.startswith(prefix)
startswith(name, prefix) ==
    Len(name) >= Len(prefix) /\ SubSeq(name, 1, Len(prefix)) = prefix

\* format_entry(line) of configure: the entry is lowercased unless enclosed
\* in double quotes
format_entry(line) == IF ~startswith(line, <<"\"">>) THEN lower(line) ELSE line

\* self.allowed_sql_functions after configure() read the lines of the file
allowed_sql_functions(lines) == {format_entry(line) : line \in lines}

NotAuthorized(msg) ==
    [exc |-> "NotAuthorized", key |-> "none", msg |-> msg, records_row |-> -1,
     pgcode |-> "none", at |-> -1]

\* a check that takes no table for a system table
is_system_table_Never(t) == FALSE

\* t.startswith('pg_')
is_system_table(t) == startswith(t, <<"p", "g", "_">>)

\* the for ... else over the name variants of a function
is_allowed(f, allowed) == \E name_variant \in {lower(f), quote(f)} : name_variant \in allowed

\* context['check_access'](table_names): the access check of the caller,
\* which accepts the tables or raises
check_access(table_names, granted) ==
    IF granted THEN NoError ELSE NotAuthorized("access")

\* the checks of search_sql between the plan and the execution: NoError, or
\* the exception of the first check that fails
Authorize(table_names, function_names, granted, allowed) ==
    IF \E t \in table_names : is_system_table(t)
       THEN NotAuthorized("Not authorized to access system tables")
    ELSE IF check_access(table_names, granted) # NoError
       THEN check_access(table_names, granted)
    ELSE IF \E f \in function_names : ~is_allowed(f, allowed)
       THEN NotAuthorized("Not authorized to call function")
    ELSE NoError

\* the result the engine gives for
\*   SELECT * FROM ({sql}) AS blah LIMIT {rows_max + 1}
Limited(rows, rows_max) == SubSeq(rows, 1, Min(Len(rows), rows_max + 1))

\* a result that keeps the extra row
format_results_KeepsAll(results, records_truncated) ==
    [records |-> results]
    @@ (IF records_truncated THEN [records_truncated |-> TRUE] ELSE <<>>)

\* format_results(context, results, data_dict) after "if results.rowcount ==
\* rows_max + 1: data_dict['records_truncated'] = True": the records, without
\* the last one when records_truncated is set
format_results(results, records_truncated) ==
    [records |-> IF records_truncated THEN SubSeq(results, 1, Len(results) - 1)
                 ELSE results]
    @@ (IF records_truncated THEN [records_truncated |-> TRUE] ELSE <<>>)

\* the except clauses of search_sql for an engine error of the execution
sql_except(pgcode) ==
    IF pgcode = "42501" THEN NotAuthorized("Not authorized to read resource.")
    ELSE translate(DBAPIError(pgcode))

\* what search_sql gives its caller: the exception, the statements executed
\* on the connection, the result
SqlOut(err, stmts, result) ==
    [err |-> err, trans |-> "none", work |-> NoTable, stmts |-> stmts, result |-> result]

\* search_sql(context, data_dict).  fault is the engine error code the
\* execution of the caller's SQL ends with, "none" when it succeeds.
search_sql(config, data_dict, granted, fault) ==
    LET sql == data_dict.sql
        plan == <<"SET LOCAL statement_timeout", "EXPLAIN">>
        denied == Authorize(sql.table_names, sql.function_names, granted,
                            config.allowed_sql_functions)
        results == Limited(sql.rows, config.rows_max)
    IN  IF denied # NoError THEN SqlOut(denied, plan, <<>>)
        ELSE IF fault # "none" THEN SqlOut(sql_except(fault), plan \o <<"SELECT">>, <<>>)
        ELSE SqlOut(NoError, plan \o <<"SELECT">>,
                    format_results(results, Len(results) = config.rows_max + 1))

----------------------------------------------------------------------------
(* search_sql with an allow-list read from a file of two lines *)

\* the largest ckan.datastore.search.rows_max
RowsMax == 2

\* the lines of the allowed-functions file: Cnt, and Mf in double quotes
AllowedLines == {<<"C", "n", "t">>, <<"\"", "M", "f", "\"">>}

\* the names requests refer to
TableNames == {<<"r", "1">>, <<"p", "g", "_", "x">>, <<"P", "g", "_", "x">>, <<"p", "g">>}
FunctionNames == {<<"c", "n", "t">>, <<"C", "n", "t">>, <<"M", "f">>, <<"m", "f">>}

\* the rows a query yields are numbered in the order it yields them
SqlRows == {[i \in 1..n |-> i] : n \in 0..(RowsMax + 2)}

\* the engine errors of the execution: none, permission_denied, query_canceled
SqlFaults == {"none", "42501", query_canceled}

InitSql ==
    /\ \E lines \in SUBSET AllowedLines, rows_max \in 1..RowsMax :
          db = [allowed_sql_functions |-> allowed_sql_functions(lines),
                rows_max |-> rows_max]
    /\ call = NoCall
    /\ pre = db
    /\ out = NoOut

\* a search_sql call, from the request to the result the caller gets
SearchSql(data_dict) ==
    Searched(data_dict, search_sql(db, data_dict, data_dict.granted, data_dict.fault))

NextSql ==
    \/ /\ call = NoCall
       /\ \E table_names \in SUBSET TableNames, function_names \in SUBSET FunctionNames,
             rows \in SqlRows, granted \in BOOLEAN, fault \in SqlFaults :
            SearchSql([op |-> "search_sql",
                       sql |-> [table_names |-> table_names,
                                function_names |-> function_names, rows |-> rows],
                       granted |-> granted, fault |-> fault])
    \/ Return

SpecSql == InitSql /\ [][NextSql]_vars

----------------------------------------------------------------------------
(* Properties of search_sql *)

SqlCall == call.op = "search_sql"

\* the caller's SQL was executed
Executed == \E i \in DOMAIN out.stmts : out.stmts[i] = "SELECT"

\* the SQL refers to a table whose name begins with pg_
SystemTable ==
    \E t \in call.sql.table_names :
        Len(t) >= 3 /\ t[1] = "p" /\ t[2] = "g" /\ t[3] = "_"

\* every function the SQL refers to is on the allow-list by its lower-cased
\* name or by its exact name in double quotes
FunctionsAllowed ==
    \A f \in call.sql.function_names :
        \/ lower(f) \in db.allowed_sql_functions
        \/ <<"\"">> \o f \o <<"\"">> \in db.allowed_sql_functions

\* the call ended with the not-authorized error msg and the SQL not executed
Refused(msg) == out.err = NotAuthorized(msg) /\ ~Executed

\* C18: search_sql executes the caller's SQL only after the system-table
\* check, the access check and the function allow-list check have passed,
\* in this order; the first check that fails raises its not-authorized
\* error and the SQL is not executed
C18_ChecksBeforeExecution ==
    SqlCall =>
        /\ Executed => ~SystemTable /\ call.granted /\ FunctionsAllowed
        /\ SystemTable => Refused("Not authorized to access system tables")
        /\ (~SystemTable /\ ~call.granted) => Refused("access")
        /\ (~SystemTable /\ call.granted /\ ~FunctionsAllowed) =>
              Refused("Not authorized to call function")

\* a query was executed that calls one function allowed by its lower-cased
\* name and one allowed by its exact name in double quotes
C18_Witness ==
    /\ SqlCall /\ Executed /\ out.err = NoError
    /\ {<<"C", "n", "t">>, <<"M", "f">>} \subseteq call.sql.function_names
    /\ call.sql.table_names # {}

\* the rows the caller's query yields
Yield == call.sql.rows

----------------------------------------------------------------------------
(* insert on one resource that has no, one or two fields *)

\* a resource created without fields has the columns _id and _full_text
\* only: _get_fields gives no field for it
InitInsert ==
    /\ \E columns \in {<<>>, <<ColumnK>>, <<ColumnK, ColumnN>>} :
          db = [tables |-> [r \in {"r1"} |-> WriteTable(columns, <<PkeyIndex>>)]]
    /\ call = NoCall
    /\ pre = db
    /\ out = NoOut

NextInsert ==
    \/ /\ call = NoCall
       /\ \E records \in RecordLists :
            \E fault \in Faults(records) : \E dry_run \in DryRuns(fault) :
                Upsert(_INSERT, records, dry_run, fault)
    \/ Return

SpecInsert == InitInsert /\ [][NextInsert]_vars

\* the records of the call whose keys are not all field ids of the resource
Offending ==
    {i \in DOMAIN call.records :
        ~ (DOMAIN call.records[i] \subseteq Range(_pluck_id(_get_fields(PreTbl))))}

FirstOffending == CHOOSE i \in Offending : \A j \in Offending : i <= j

\* an insert call with an offending record, whose catalog query is not
\* cancelled by the statement timeout
OffendingInsert ==
    /\ UpsertCall /\ call.method = _INSERT
    /\ call.fault # 0
    /\ Offending # {}

\* C20: an insert call one of whose records has a key that is no field id of
\* the resource is rejected with a validation error under 'records' that
\* names the first offending row, and no row of the call is written: not in
\* the transaction of the call, and not in the table.
C20_InsertValidation ==
    OffendingInsert =>
        /\ out.err.exc = "ValidationError"
        /\ out.err.key = "records" /\ out.err.msg = "has extra keys"
        /\ out.err.at = FirstOffending - 1
        /\ Work.rows = PreTbl.rows
        /\ Tbl.rows = PreTbl.rows


----------------------------------------------------------------------------
(* delete *)

\* plugin.datastore_validate(context, data_dict_copy, fields_types): the
\* hook takes out of the copy what it accepts; of the filters, those on the
\* fields of the resource
datastore_validate(data_dict, fields_types) ==
    LET unknown == DOMAIN data_dict.filters \ Range(_pluck_id(fields_types))
    IN  [data_dict EXCEPT !.filters = [f \in unknown |-> data_dict.filters[f]]]

\* validate(context, data_dict): an entry the hooks left in the copy, and
\* that is not empty, is an invalid value
validate(data_dict, fields_types) ==
    IF DOMAIN datastore_validate(data_dict, fields_types).filters # {}
       THEN ValidationError("filters", "invalid value", -1, "none", -1)
       ELSE NoError

\* a DELETE that has lost its WHERE
delete_data_NoWhere(tbl, data_dict) ==
    IF validate(data_dict, _get_fields_types(tbl)) # NoError
       THEN Tx(tbl, validate(data_dict, _get_fields_types(tbl)))
       ELSE Tx([tbl EXCEPT !.rows = {}], NoError)

\* delete_data(context, data_dict): DELETE FROM "resource_id" WHERE ...
delete_data(tbl, data_dict) ==
    IF validate(data_dict, _get_fields_types(tbl)) # NoError
       THEN Tx(tbl, validate(data_dict, _get_fields_types(tbl)))
       ELSE Tx([tbl EXCEPT !.rows =
                   @ \ Where(@, _where_clauses(data_dict, _get_fields_types(tbl)))],
               NoError)

\* DatastorePostgresqlBackend.delete(context, data_dict): engine.begin()
\* commits when the block ends and rolls back when it raises
\* the statements delete() executes on its connection, in order: it sets no
\* statement timeout; validate and delete_data each read the fields with a
\* SELECT
delete_statements(data_dict, err) ==
    IF ~ Given(data_dict, "filters") THEN <<"DROP TABLE">>
    ELSE IF err # NoError THEN <<"SELECT">>
    ELSE <<"SELECT", "SELECT", "DELETE">>

delete_end(d, data_dict, t) ==
    LET trans == IF t.err = NoError THEN "committed" ELSE "rolled_back"
    IN  [db |-> Persist(d, data_dict.resource_id, t.tbl, trans),
         out |-> [err |-> t.err, trans |-> trans, work |-> t.tbl,
                  stmts |-> delete_statements(data_dict, t.err)]]

delete(d, data_dict) ==
    delete_end(d, data_dict,
               IF ~ Given(data_dict, "filters")
                  THEN Tx(NoTable, NoError)   \* DROP TABLE ... CASCADE
                  ELSE delete_data(d.tables[data_dict.resource_id], data_dict))

----------------------------------------------------------------------------
(* delete on one resource that has the column k, or the columns k and n *)

\* the filters of a request: on _id, k and n (no column of a resource that
\* has the column k only)
FilterSets == PartialFns({"_id", "k", "n"}, Vals)

Deleted(data_dict, r) ==
    /\ db' = r.db
    /\ call' = data_dict
    /\ pre' = db
    /\ out' = r.out

\* a delete call, from the request to the result the caller gets; the
\* caller has checked that the resource exists
Delete(filters) ==
    /\ db.tables["r1"].exists
    /\ Deleted([op |-> "delete", resource_id |-> "r1"] @@ Entry("filters", filters),
               delete(db, [op |-> "delete", resource_id |-> "r1"] @@ Entry("filters", filters)))

NextDelete ==
    \/ /\ call = NoCall
       /\ db.tables["r1"].exists
       /\ \E record \in [{"k"} -> Vals] \cup [{"k", "n"} -> Vals] :
            Upsert(_INSERT, <<record>>, FALSE, -1)
    \/ /\ call = NoCall
       /\ \E filters \in Optional(FilterSets) : Delete(filters)
    \/ Return

SpecDelete == InitWrite /\ [][NextDelete]_vars

DeleteCall == call.op = "delete"

\* the row has, in every field a filter names, the value the filter gives
Matches(row, filters) ==
    \A f \in DOMAIN filters : f \in DOMAIN row /\ row[f] = filters[f]

\* C21: a delete without filters drops the table; a delete with filters
\* keeps the table and its columns, keeps every row that does not match all
\* filters and, unless it is rejected, removes every row that matches them.
C21_Delete ==
    DeleteCall =>
        IF ~ Given(call, "filters")
           THEN out.err = NoError /\ ~ Tbl.exists
           ELSE /\ Tbl.exists /\ Tbl.columns = PreTbl.columns
                /\ \A row \in PreTbl.rows :
                      ~ Matches(row, call.filters) => row \in Tbl.rows
                /\ Tbl.rows \subseteq PreTbl.rows
                /\ out.err = NoError =>
                      \A row \in PreTbl.rows :
                          Matches(row, call.filters) => row \notin Tbl.rows

\* a filtered delete that removed one of two rows
C21_Witness ==
    /\ DeleteCall /\ Given(call, "filters") /\ call.filters # <<>>
    /\ Cardinality(PreTbl.rows) = 2
    /\ Cardinality(Tbl.rows) = 1

\* a statement that reads or changes data or the schema
DataStatements == {"SELECT", "DELETE", "DROP TABLE", "INSERT", "UPDATE"}

\* C25: a session-managed call sets the statement timeout on its connection
\* before any other statement, so that none of its data or schema
\* statements runs without the timeout; stated here for the delete calls.
C25_TimeoutFirst ==
    DeleteCall =>
        \A i \in DOMAIN out.stmts :
            out.stmts[i] \in DataStatements =>
                \E j \in 1..(i - 1) : out.stmts[j] = "SET LOCAL statement_timeout"


----------------------------------------------------------------------------
(* identifier and literal_string.  A string is the sequence of its         *)
(* characters; NUL stands for the character '\0'.                         *)

NUL == "NUL"

\* str.replace(old, new) for a character old and a string new
RECURSIVE replace(_, _, _)
replace(s, old, new) ==
    IF s = <<>> THEN <<>>
    ELSE (IF s[1] = old THEN new ELSE <<s[1]>>) \o replace(Tail(s), old, new)

literal_string(s) ==
    <<"'">> \o replace(replace(s, "'", <<"'", "'">>), NUL, <<>>) \o <<"'">>

\* an identifier whose quote characters are not doubled
identifier_NotDoubled(s) ==
    <<"\"">> \o replace(s, NUL, <<>>) \o <<"\"">>

identifier(s) ==
    <<"\"">> \o replace(replace(s, "\"", <<"\"", "\"">>), NUL, <<>>) \o <<"\"">>

\* the longest input string
MaxLen == 4

Chars == {"a", "'", "\"", NUL}

Quoted(op, s, result) ==
    /\ call' = [op |-> op, s |-> s]
    /\ out' = result
    /\ UNCHANGED <<db, pre>>

NextQuote ==
    \/ /\ call = NoCall
       /\ \E s \in Seqs(Chars, MaxLen) : Quoted("identifier", s, identifier(s))
    \/ /\ call = NoCall
       /\ \E s \in Seqs(Chars, MaxLen) : Quoted("literal_string", s, literal_string(s))
    \/ Return

\* the calls of the functions that read no table
InitPure ==
    /\ db = [tables |-> <<>>]
    /\ call = NoCall
    /\ pre = db
    /\ out = NoOut

SpecQuote == InitPure /\ [][NextQuote]_vars

QuoteCall == call.op \in {"identifier", "literal_string"}

\* the quote character of the function called
QuoteChar == IF call.op = "identifier" THEN "\"" ELSE "'"

\* the result without its first and its last character
Interior == SubSeq(out, 2, Len(out) - 1)

\* every quote character of t is one of a pair
RECURSIVE AllDoubled(_, _)
AllDoubled(t, q) ==
    IF t = <<>> THEN TRUE
    ELSE IF t[1] # q THEN AllDoubled(Tail(t), q)
    ELSE Len(t) >= 2 /\ t[2] = q /\ AllDoubled(Tail(Tail(t)), q)

\* t with each pair of quote characters replaced by one
RECURSIVE Undoubled(_, _)
Undoubled(t, q) ==
    IF t = <<>> THEN <<>>
    ELSE IF t[1] = q /\ Len(t) >= 2 /\ t[2] = q
       THEN <<q>> \o Undoubled(Tail(Tail(t)), q)
    ELSE <<t[1]>> \o Undoubled(Tail(t), q)

NotNul(c) == c # NUL

\* C22: the result of identifier(s) and of literal_string(s) is delimited by
\* one pair of quote characters, its interior has no quote character that is
\* not doubled and no NUL, and undoing the quoting gives s without its NULs.
C22_QuotingIsSafe ==
    QuoteCall =>
        /\ Len(out) >= 2 /\ out[1] = QuoteChar /\ out[Len(out)] = QuoteChar
        /\ AllDoubled(Interior, QuoteChar)
        /\ NUL \notin Range(Interior)
        /\ Undoubled(Interior, QuoteChar) = SelectSeq(call.s, NotNul)

\* an identifier for a string with a quote character next to a NUL
C22_Witness ==
    /\ call.op = "identifier"
    /\ Len(call.s) >= 3
    /\ call.s[1] = "\"" /\ call.s[2] = NUL /\ call.s[3] = "\""


----------------------------------------------------------------------------
(* _guess_type.  A value of a record is modelled by its Python type, and a *)
(* string in addition by the sequence of its characters.                   *)

Digits == <<"0", "1", "2", "3", "4", "5", "6", "7", "8", "9">>

IsDigit(c) == \E i \in DOMAIN Digits : Digits[i] = c

AllDigits(s) == \A i \in DOMAIN s : IsDigit(s[i])

DigitVal(c) == (CHOOSE i \in DOMAIN Digits : Digits[i] = c) - 1

\* the number a string of digits denotes
RECURSIVE Val(_)
Val(s) == IF s = <<>> THEN 0 ELSE 10 * Val(SubSeq(s, 1, Len(s) - 1)) + DigitVal(s[Len(s)])

\* str.strip()
RECURSIVE strip(_)
strip(s) ==
    IF s = <<>> THEN s
    ELSE IF s[1] = " " THEN strip(Tail(s))
    ELSE IF s[Len(s)] = " " THEN strip(SubSeq(s, 1, Len(s) - 1))
    ELSE s

Unsigned(s) == IF s # <<>> /\ s[1] \in {"-", "+"} THEN Tail(s) ELSE s

\* int(s) of a string raises no ValueError: blanks, a sign, digits
int_str(s) ==
    LET u == Unsigned(strip(s))
    IN  u # <<>> /\ AllDigits(u)

\* digits with at most one point among them
Decimal(s) ==
    /\ \E i \in DOMAIN s : IsDigit(s[i])
    /\ \A i \in DOMAIN s : IsDigit(s[i]) \/ s[i] = "."
    /\ Cardinality({i \in DOMAIN s : s[i] = "."}) <= 1

\* float(s) of a string raises no ValueError: blanks, a sign, then nan, or
\* a decimal number with an optional exponent
float_str(s) ==
    LET u == Unsigned(strip(s))
        es == {i \in DOMAIN u : u[i] = "e"}
    IN  \/ u = <<"n", "a", "n">>
        \/ es = {} /\ Decimal(u)
        \/ \E p \in es :
              /\ Decimal(SubSeq(u, 1, p - 1))
              /\ LET x == Unsigned(SubSeq(u, p + 1, Len(u)))
                 IN  x # <<>> /\ AllDigits(x)

\* data_type(field) raises neither TypeError nor ValueError
coerces(data_type, field) ==
    CASE field.type \in {"int", "bool", "float"} -> TRUE
      [] field.type = "str" ->
            IF data_type = "int" THEN int_str(field.s) ELSE float_str(field.s)
      [] OTHER -> FALSE

\* the directives of the date formats; every other item of a format is a
\* character that stands for itself
Directives == {"Y", "m", "d", "H", "M", "S"}

_DATE_FORMATS ==
    <<<<"Y", "-", "m", "-", "d">>,
      <<"Y", "-", "m", "-", "d", " ", "H", ":", "M", ":", "S">>,
      <<"Y", "-", "m", "-", "d", "T", "H", ":", "M", ":", "S">>,
      <<"Y", "-", "m", "-", "d", "T", "H", ":", "M", ":", "S", "Z">>,
      <<"d", "/", "m", "/", "Y">>,
      <<"m", "/", "d", "/", "Y">>,
      <<"d", "-", "m", "-", "Y">>,
      <<"m", "-", "d", "-", "Y">>>>

\* the text t is one the directive accepts (the pattern strptime compiles
\* for it)
Token(directive, t) ==
    IF directive = "d" /\ Len(t) = 2 /\ t[1] = " "
       THEN IsDigit(t[2]) /\ t[2] # "0"
    ELSE /\ AllDigits(t)
         /\ CASE directive = "Y" -> Len(t) = 4
              [] directive = "m" -> Len(t) \in {1, 2} /\ Val(t) \in 1..12
              [] directive = "d" -> Len(t) \in {1, 2} /\ Val(t) \in 1..31
              [] directive = "H" -> Len(t) \in {1, 2} /\ Val(t) \in 0..23
              [] directive = "M" -> Len(t) \in {1, 2} /\ Val(t) \in 0..59
              [] directive = "S" -> Len(t) \in {1, 2} /\ Val(t) \in 0..61

TokenVal(t) == IF t[1] = " " THEN Val(Tail(t)) ELSE Val(t)

\* the ways the whole of s matches the format: the values of the directives
RECURSIVE Parse(_, _, _)
Parse(s, format, found) ==
    IF format = <<>> THEN (IF s = <<>> THEN {found} ELSE {})
    ELSE IF format[1] \in Directives
       THEN UNION {IF Token(format[1], SubSeq(s, 1, n))
                      THEN Parse(SubSeq(s, n + 1, Len(s)), Tail(format),
                                 found @@ (format[1] :> TokenVal(SubSeq(s, 1, n))))
                      ELSE {} : n \in 1..Min(4, Len(s))}
    ELSE IF format[1] = " "
       THEN UNION {IF \A i \in 1..n : s[i] = " "
                      THEN Parse(SubSeq(s, n + 1, Len(s)), Tail(format), found)
                      ELSE {} : n \in 1..Len(s)}
    ELSE IF s # <<>> /\ s[1] = format[1] THEN Parse(Tail(s), Tail(format), found)
    ELSE {}

DaysIn(year, month) ==
    IF month = 2
       THEN (IF year % 4 = 0 /\ (year % 100 # 0 \/ year % 400 = 0) THEN 29 ELSE 28)
    ELSE IF month \in {4, 6, 9, 11} THEN 30
    ELSE 31

\* datetime.datetime.strptime(field, format) raises neither ValueError nor
\* TypeError
strptime(field, format) ==
    /\ field.type = "str"
    /\ \E found \in Parse(field.s, format, <<>>) :
          found.Y >= 1 /\ found.d <= DaysIn(found.Y, found.m)

\* the loop over list(data_types): a type the value does not coerce to is
\* discarded
RECURSIVE Discard(_, _, _, _)
Discard(field, order, i, data_types) ==
    IF i > Len(order) \/ data_types = {} THEN data_types
    ELSE Discard(field, order, i + 1,
                 IF coerces(order[i], field) THEN data_types
                 ELSE data_types \ {order[i]})

\* a _guess_type that returns on the first type the value coerces to
_guess_type_FirstCoercion(field, order) ==
    IF field.type \in {"dict", "list"} THEN "nested"
    ELSE IF field.type \in {"int", "bool"} THEN "int"
    ELSE IF field.type = "float" THEN "float"
    ELSE IF coerces(order[1], field) /\ order[1] = "float" THEN "numeric"
    ELSE IF "int" \in Discard(field, order, 1, {"int", "float"}) THEN "integer"
    ELSE IF "float" \in Discard(field, order, 1, {"int", "float"}) THEN "numeric"
    ELSE IF \E i \in DOMAIN _DATE_FORMATS : strptime(field, _DATE_FORMATS[i])
       THEN "timestamp"
    ELSE "text"

\* _guess_type(field) for a value of any type; order is the order in which
\* list(data_types) gives the two types of the set.  A bool is an int for
\* isinstance.
guess_type(field, order) ==
    IF field.type \in {"dict", "list"} THEN "nested"
    ELSE IF field.type \in {"int", "bool"} THEN "int"
    ELSE IF field.type = "float" THEN "float"
    ELSE IF "int" \in Discard(field, order, 1, {"int", "float"}) THEN "integer"
    ELSE IF "float" \in Discard(field, order, 1, {"int", "float"}) THEN "numeric"
    ELSE IF \E i \in DOMAIN _DATE_FORMATS : strptime(field, _DATE_FORMATS[i])
       THEN "timestamp"
    ELSE "text"

\* the values guessed: every string of up to MaxShort of these characters,
\* the strings below, and one value of each other type
MaxShort == 3

ShortChars == {"5", "0", ".", "-", "e", "a", " ", "/"}

LongStrings ==
    {<<"2", "0", "2", "0", "-", "0", "1", "-", "0", "1">>,
     <<"2", "0", "2", "0", "-", "1", "3", "-", "0", "1">>,
     <<"2", "0", "2", "1", "-", "0", "2", "-", "2", "9">>,
     <<"2", "0", "2", "0", "-", "0", "2", "-", "2", "9">>,
     <<"2", "0", "2", "0", "-", "0", "1", "-", "0", "1", " ", "1", "0", ":", "0", "0", ":", "0", "0">>,
     <<"2", "0", "2", "0", "-", "0", "1", "-", "0", "1", "T", "1", "0", ":", "0", "0", ":", "0", "0">>,
     <<"2", "0", "2", "0", "-", "0", "1", "-", "0", "1", "T", "1", "0", ":", "0", "0", ":", "0", "0", "Z">>,
     <<"2", "0", "2", "0", "-", "0", "1", "-", "0", "1", "T", "2", "5", ":", "0", "0", ":", "0", "0">>,
     <<"3", "1", "/", "0", "1", "/", "2", "0", "2", "0">>,
     <<"0", "1", "/", "3", "1", "/", "2", "0", "2", "0">>,
     <<"3", "1", "-", "0", "1", "-", "2", "0", "2", "0">>,
     <<"0", "1", "-", "3", "1", "-", "2", "0", "2", "0">>,
     <<"3", "1", "/", "3", "1", "/", "2", "0", "2", "0">>,
     <<"2", "0", "2", "0", "-", "1", "-", "5">>,
     <<"0", "0", "0", "0", "-", "0", "1", "-", "0", "1">>,
     <<"2", "0", "2", "0">>,
     <<"1", ".", "5", "e", "3">>,
     <<"1", "e">>,
     <<"n", "a", "n">>,
     <<"-", " ", "5">>,
     <<"5", ".", "5", ".", "5">>,
     <<"2", "0", "2", "0", "-", "0", "1", "-", "0", "1", " ">>,
     <<"2", "0", "2", "0", "-", "0", "1", "-", "0", "1", " ", " ", "1", "0", ":", "0", "0", ":", "0", "0">>}

PyValues ==
    {[type |-> t] : t \in {"dict", "list", "int", "bool", "float", "NoneType"}}
    \cup {[type |-> "str", s |-> s] : s \in Seqs(ShortChars, MaxShort) \cup LongStrings}

Guessed(field, order, result) ==
    /\ call' = [op |-> "_guess_type", field |-> field, order |-> order]
    /\ out' = result
    /\ UNCHANGED <<db, pre>>

NextGuess ==
    \/ /\ call = NoCall
       /\ \E field \in PyValues, order \in {<<"int", "float">>, <<"float", "int">>} :
            Guessed(field, order, guess_type(field, order))
    \/ Return

SpecGuess == InitPure /\ [][NextGuess]_vars

GuessCall == call.op = "_guess_type"

Str(s) == [type |-> "str", s |-> s]

\* C23: the type guessed is decided in this order, whatever the order in
\* which the set of the two numeric types is gone through: nested for an
\* object or a list, int for an integer, float for a float, integer for a
\* value that coerces to an integer, numeric for one that coerces to a
\* float, timestamp for one that matches a date pattern, text otherwise; so
\* 5 gives int, 5.0 float, "5" integer, "2020-01-01" timestamp, "abc" text.
C23_GuessType ==
    GuessCall =>
        /\ out = CASE call.field.type \in {"dict", "list"} -> "nested"
                   [] call.field.type \in {"int", "bool"} -> "int"
                   [] call.field.type = "float" -> "float"
                   [] call.field.type = "NoneType" -> "text"
                   [] call.field.type = "str" /\ int_str(call.field.s) -> "integer"
                   [] call.field.type = "str" /\ ~ int_str(call.field.s)
                        /\ float_str(call.field.s) -> "numeric"
                   [] call.field.type = "str" /\ ~ int_str(call.field.s)
                        /\ ~ float_str(call.field.s)
                        /\ (\E i \in DOMAIN _DATE_FORMATS :
                               strptime(call.field, _DATE_FORMATS[i])) -> "timestamp"
                   [] OTHER -> "text"
        /\ call.field = [type |-> "int"] => out = "int"
        /\ call.field = [type |-> "float"] => out = "float"
        /\ call.field = Str(<<"5">>) => out = "integer"
        /\ call.field = Str(<<"2", "0", "2", "0", "-", "0", "1", "-", "0", "1">>)
              => out = "timestamp"
        /\ call.field = Str(<<"a", "a", "a">>) => out = "text"
        /\ call.field = Str(<<"5", ".", "5">>) => out = "numeric"
        /\ call.field = Str(<<"2", "0", "2", "1", "-", "0", "2", "-", "2", "9">>)
              => out = "text"

\* the string "5", with float tried before int
C23_Witness ==
    /\ GuessCall
    /\ call.field = Str(<<"5">>)
    /\ call.order = <<"float", "int">>
    /\ out = "integer"


----------------------------------------------------------------------------
(* Full-text search.  The value of q is modelled by its Python type: a     *)
(* string s, or a dict with its items.  A text is a word; a cell holds one *)
(* word, and a ts-query of a word matches the vectors that hold it.        *)

QStr(s) == [type |-> "str", s |-> s]
QDict(items) == [type |-> "dict", items |-> items]

\* "if q": a string or a dict that is not empty
HasQ(data_dict) ==
    /\ Given(data_dict, "q")
    /\ data_dict.q.type = "dict" => DOMAIN data_dict.q.items # {}

HasFullText(data_dict) == Given(data_dict, "full_text")

\* a query alias that does not depend on the field
_ts_query_alias_Same(field) == "query"

\* _ts_query_alias(field); "" stands for no field.  The alias is the
\* identifier of 'query', or of 'query ' + field
_ts_query_alias(field) ==
    CASE field = "" -> "query"
      [] field = "k" -> "query k"
      [] field = "a" -> "query a"

\* u'rank ' + field, and u'rank'
rank_alias(field) ==
    CASE field = "" -> "rank"
      [] field = "k" -> "rank k"
      [] field = "a" -> "rank a"

\* _build_query_and_rank_statements(lang, query, plain, field)
_build_query_and_rank_statements(query, plain, field) ==
    [statement |-> [fn |-> IF plain THEN "plainto_tsquery" ELSE "to_tsquery",
                    text |-> query, alias |-> _ts_query_alias(field)],
     rank |-> [alias |-> rank_alias(field),
               vector |-> IF field = "" THEN "_full_text" ELSE field,
               query |-> _ts_query_alias(field)]]

\* rank_columns[key] = rank, for a dict kept as the sequence of its items
Put(items, rank) ==
    IF \E i \in DOMAIN items : items[i].alias = rank.alias
       THEN [i \in DOMAIN items |->
                IF items[i].alias = rank.alias THEN rank ELSE items[i]]
       ELSE Append(items, rank)

\* _update_rank_statements_and_columns(statements, rank_columns, lang,
\* query, plain, field); ts holds the two
_update_rank_statements_and_columns(ts, query, plain, field) ==
    [statements |->
        Append(ts.statements,
               _build_query_and_rank_statements(query, plain, field).statement),
     rank_columns |->
        Put(ts.rank_columns,
            _build_query_and_rank_statements(query, plain, field).rank)]

\* "for field, value in q.items()"
RECURSIVE UpdateEach(_, _, _, _, _)
UpdateEach(ts, items, fields, i, plain) ==
    IF i > Len(fields) THEN ts
    ELSE UpdateEach(_update_rank_statements_and_columns(ts, items[fields[i]], plain, fields[i]),
                    items, fields, i + 1, plain)

NoTs == [statements |-> <<>>, rank_columns |-> <<>>]

\* _textsearch_query(lang, q, plain, full_text)
_textsearch_query(data_dict) ==
    IF ~ (HasQ(data_dict) \/ HasFullText(data_dict)) THEN NoTs
    ELSE IF HasQ(data_dict) /\ ~ HasFullText(data_dict)
       THEN (IF data_dict.q.type = "str"
                THEN _update_rank_statements_and_columns(NoTs, data_dict.q.s, data_dict.plain, "")
                ELSE UpdateEach(NoTs, data_dict.q.items,
                                Ordered(DOMAIN data_dict.q.items), 1, data_dict.plain))
    ELSE IF ~ HasQ(data_dict)
       THEN _update_rank_statements_and_columns(NoTs, data_dict.full_text, data_dict.plain, "")
    ELSE IF data_dict.q.type = "dict"
       THEN UpdateEach(_update_rank_statements_and_columns(NoTs, data_dict.full_text, data_dict.plain, ""),
                       data_dict.q.items, Ordered(DOMAIN data_dict.q.items), 1,
                       data_dict.plain)
    ELSE _update_rank_statements_and_columns(NoTs, data_dict.full_text, data_dict.plain, "")

\* a clause "vector @@ query"; the vector is _full_text or
\* to_tsvector(lang, cast(field as text))
TsClause(vector, query) == [vector |-> vector, query |-> query]

TypeOf(fields_types, field) ==
    (CHOOSE f \in Range(fields_types) : f.id = field).type

RECURSIVE FieldClauses(_, _, _)
FieldClauses(fields, i, fields_types) ==
    IF i > Len(fields) THEN <<>>
    ELSE (IF fields[i] \notin Range(_pluck_id(fields_types)) THEN <<>>
          ELSE (IF should_fts_index_field_type(TypeOf(fields_types, fields[i]))
                   THEN <<>>
                   ELSE <<TsClause("_full_text", _ts_query_alias(fields[i]))>>)
               \o <<TsClause(fields[i], _ts_query_alias(fields[i]))>>)
         \o FieldClauses(fields, i + 1, fields_types)

\* the clauses _where_clauses adds for q and full_text
_where_clauses_q(data_dict, fields_types) ==
    (IF ~ HasQ(data_dict) THEN <<>>
     ELSE IF data_dict.q.type = "str"
        THEN <<TsClause("_full_text", _ts_query_alias(""))>>
     ELSE FieldClauses(Ordered(DOMAIN data_dict.q.items), 1, fields_types))
    \o (IF HasFullText(data_dict)
           THEN <<TsClause("_full_text", _ts_query_alias(""))>>
           ELSE <<>>)

\* list.remove(x): the first x is taken out
Remove(s, x) ==
    LET i == CHOOSE j \in DOMAIN s : s[j] = x /\ \A h \in 1..(j - 1) : s[h] # x
        keep(j) == j # i
    IN  [j \in 1..(Len(s) - 1) |-> IF j < i THEN s[j] ELSE s[j + 1]]

\* the keys of fields_types once datastore_search has added the rank aliases
AllFieldIds(data_dict, fields_types) ==
    _pluck_id(fields_types)
    \o [i \in DOMAIN _textsearch_query(data_dict).rank_columns |->
           _textsearch_query(data_dict).rank_columns[i].alias]

\* field_ids of datastore_search: the fields the records query selects,
\* each under its own name
field_ids(data_dict, fields_types) ==
    IF Given(data_dict, "fields") /\ data_dict.fields # <<>>
       THEN IF ~ HasFullText(data_dict) THEN data_dict.fields
            ELSE LET all == AllFieldIds(data_dict, fields_types)
                     all_field_ids == IF "rank" \in Range(data_dict.fields)
                                         THEN all ELSE Remove(all, "rank")
                     missing(x) == x \notin Range(all_field_ids)
                 IN  all_field_ids \o SelectSeq(data_dict.fields, missing)
    ELSE AllFieldIds(data_dict, fields_types)

\* _result_fields(fields_types, field_info, fields): the ids of the result's
\* fields list
_result_fields(data_dict, fields_types) ==
    IF Given(data_dict, "fields") THEN data_dict.fields
    ELSE AllFieldIds(data_dict, fields_types)

\* the text the alias stands for, when one statement defines it
QueryText(statements, alias) ==
    (CHOOSE st \in Range(statements) : st.alias = alias).text

\* the row satisfies "vector @@ query" for the word the query holds
TsMatch(row, clause, statements) ==
    IF clause.vector = "_full_text"
       THEN \E c \in DOMAIN row \ {"_id"} : row[c] = QueryText(statements, clause.query)
       ELSE row[clause.vector] = QueryText(statements, clause.query)

\* the engine rejects a query that names an alias no item of FROM defines,
\* and a FROM that defines an alias twice
Compiles(statements, where) ==
    /\ \A i, j \in DOMAIN statements : statements[i].alias = statements[j].alias => i = j
    /\ \A i \in DOMAIN where : \E j \in DOMAIN statements : statements[j].alias = where[i].query

\* search_data for a request with q / full_text and without filters, at the
\* end of the records query
text_search_end(tbl, data_dict, ts, where) ==
    IF ~ Compiles(ts.statements, where)
       THEN [err |-> ValidationError("query", "Invalid query", -1, syntax_error, -1),
             statements |-> ts.statements, rank_columns |-> ts.rank_columns,
             where |-> where]
       ELSE [err |-> NoError,
             statements |-> ts.statements, rank_columns |-> ts.rank_columns,
             where |-> where,
             columns |-> field_ids(data_dict, _get_fields_types(tbl)),
             fields |-> _result_fields(data_dict, _get_fields_types(tbl)),
             records |-> {r \in tbl.rows :
                            \A i \in DOMAIN where : TsMatch(r, where[i], ts.statements)}]

text_search(tbl, data_dict) ==
    text_search_end(tbl, data_dict, _textsearch_query(data_dict),
                    _where_clauses_q(data_dict, _get_fields_types(tbl)))

----------------------------------------------------------------------------
(* full-text search on one resource with the columns k (int4) and a (text) *)

InitText ==
    /\ db = [tables |-> [r \in {"r1"} |-> WriteTable(<<ColumnK, ColumnA>>, <<PkeyIndex>>)]]
    /\ call = NoCall
    /\ pre = db
    /\ out = NoOut

\* the values of q: a word, or words for some of the fields
QValues == {QStr(v) : v \in Vals} \cup {QDict(items) : items \in PartialFns({"k", "a"}, Vals)}

\* the fields lists: columns, with the rank or not
FieldLists == {<<"k">>, <<"a", "k">>, <<"k", "rank">>}

TextDict(q, full_text, fields, plain) ==
    [op |-> "search", resource_id |-> "r1", plain |-> plain]
    @@ Entry("q", q) @@ Entry("full_text", full_text) @@ Entry("fields", fields)

TextSearch(data_dict) ==
    /\ call' = data_dict
    /\ out' = text_search(db.tables["r1"], data_dict)
    /\ pre' = db
    /\ UNCHANGED db

\* "rank" is asked for only where the query has a column of this name
NextText ==
    \/ /\ call = NoCall
       /\ \E record \in [{"k", "a"} -> Vals] : Upsert(_INSERT, <<record>>, FALSE, -1)
    \/ /\ call = NoCall
       /\ \E q \in Optional(QValues), full_text \in Optional(Vals),
             fields \in Optional(FieldLists), plain \in BOOLEAN :
            /\ \A f \in fields : "rank" \in Range(f) =>
                  (full_text # {} \/ \E x \in q : x.type = "str")
            /\ TextSearch(TextDict(q, full_text, fields, plain))
    \/ Return

SpecText == InitText /\ [][NextText]_vars

TextCall == call.op = "search"

\* the search terms of the request: the text and the field ("" for q as a
\* string and for full_text, which search _full_text)
QTerms ==
    IF ~ HasQ(call) THEN {}
    ELSE IF call.q.type = "str" THEN {[src |-> "q", field |-> "", text |-> call.q.s]}
    ELSE {[src |-> "q", field |-> f, text |-> call.q.items[f]] : f \in DOMAIN call.q.items}

Terms ==
    QTerms \cup (IF HasFullText(call)
                    THEN {[src |-> "full_text", field |-> "", text |-> call.full_text]}
                    ELSE {})

\* the row holds the word of the term: in the field, or in any field
TermMatch(row, term) ==
    IF term.field = "" THEN \E c \in DOMAIN row \ {"_id"} : row[c] = term.text
    ELSE row[term.field] = term.text

\* C24: each search term of q and full_text becomes one ts-query expression
\* and one rank expression, and the rows returned are those that match
\* every term's own text; a q given with full_text is not lost.
C24_EachTermSearched ==
    TextCall =>
        /\ out.err = NoError
        /\ Len(out.statements) = Cardinality(Terms)
        /\ Len(out.rank_columns) = Cardinality(Terms)
        /\ \A term \in Terms :
              \E i \in DOMAIN out.statements : out.statements[i].text = term.text
        /\ out.records = {r \in Tbl.rows : \A term \in Terms : TermMatch(r, term)}

\* C28: every query alias a WHERE clause refers to is defined by exactly one
\* ts-query statement.
C28_AliasesDefinedOnce ==
    TextCall =>
        \A i \in DOMAIN out.where :
            Cardinality({j \in DOMAIN out.statements :
                            out.statements[j].alias = out.where[i].query}) = 1

\* q names both fields and full_text is given: three aliases, four clauses
C28_Witness ==
    /\ TextCall /\ HasFullText(call) /\ HasQ(call)
    /\ call.q.type = "dict" /\ DOMAIN call.q.items = {"k", "a"}
    /\ Len(out.where) = 4 /\ Len(out.statements) = 3
    /\ out.err = NoError

\* C29: with a fields list the records have exactly the requested fields,
\* in the requested order, and the result's fields list names the same.
C29_FieldsProjection ==
    (TextCall /\ Given(call, "fields") /\ out.err = NoError) =>
        /\ out.columns = call.fields
        /\ out.fields = call.fields


----------------------------------------------------------------------------
(* The placeholders of the filter clauses.  A filter value is modelled by  *)
(* its Python type: a scalar v, or a list with its items.  The placeholder *)
(* value_N is modelled by the number N.                                    *)

Scalar(v) == [type |-> "scalar", v |-> v]
List(items) == [type |-> "list", items |-> items]

\* field_type.startswith('_'), for the types of the model
_is_array_type(field_type) == field_type \in {"_int4", "_text"}

\* the value bound for a value compared with a column of the type: str(v)
\* for a text column, v itself otherwise
Bound(field_type, v) == IF field_type = "text" THEN [str |-> v] ELSE [raw |-> v]

\* dict(zip(placeholders, value)): a name that comes twice keeps the last value
Zip(placeholders, values) ==
    [p \in Range(placeholders) |->
        values[CHOOSE i \in DOMAIN placeholders :
                  /\ placeholders[i] = p
                  /\ \A j \in DOMAIN placeholders : placeholders[j] = p => j <= i]]

\* the clause of one filter; idx is the next number of idx_gen
filter_clause(field, value, field_type, idx) ==
    IF value.type = "list" /\ ~ _is_array_type(field_type)
       THEN [field |-> field, op |-> "in",
             placeholders |-> [i \in DOMAIN value.items |-> idx + i - 1],
             params |-> Zip([i \in DOMAIN value.items |-> idx + i - 1],
                            [i \in DOMAIN value.items |->
                                Bound(field_type, value.items[i])])]
       ELSE [field |-> field, op |-> "=",
             placeholders |-> <<idx>>,
             params |-> [p \in {idx} |->
                            Bound(field_type,
                                  IF value.type = "list" THEN value.items ELSE value.v)]]

\* a counter that starts again with every clause
next_idx_Restarts(idx, clause) == 0

\* idx_gen after the placeholders of the clause have been drawn from it
next_idx(idx, clause) == idx + Len(clause.placeholders)

\* "for field, value in filters.items()": a filter on a field the resource
\* lacks is skipped
RECURSIVE filter_clauses(_, _, _, _, _)
filter_clauses(filters, fields, i, fields_types, idx) ==
    IF i > Len(fields) THEN <<>>
    ELSE IF fields[i] \notin Range(_pluck_id(fields_types))
       THEN filter_clauses(filters, fields, i + 1, fields_types, idx)
    ELSE <<filter_clause(fields[i], filters[fields[i]],
                         TypeOf(fields_types, fields[i]), idx)>>
         \o filter_clauses(filters, fields, i + 1, fields_types,
                           next_idx(idx, filter_clause(fields[i], filters[fields[i]],
                                                       TypeOf(fields_types, fields[i]), idx)))

\* params.update(chunk) for each chunk of where_values, in order
RECURSIVE update_all(_, _)
update_all(params, where_values) ==
    IF where_values = <<>> THEN params
    ELSE update_all(where_values[1] @@ params, Tail(where_values))

\* _where_clauses for the filters, then _where and the parameter mapping
\* _execute_single_statement executes with
where_params(filters, fields_types) ==
    LET clauses == filter_clauses(filters, Ordered(DOMAIN filters), 1, fields_types, 0)
    IN  [clauses |-> clauses,
         params |-> update_all(<<>>, [i \in DOMAIN clauses |-> clauses[i].params])]

----------------------------------------------------------------------------
(* filters on a resource with an int4, a text and an array column *)

\* the most items of a list value
MaxList == 2

ColumnY == [id |-> "y", type |-> "_int4"]

FilterValues == {Scalar(v) : v \in Vals} \cup {List(items) : items \in Seqs(Vals, MaxList)}

WhereFieldsTypes == _get_fields_types(WriteTable(<<ColumnK, ColumnA, ColumnY>>, <<PkeyIndex>>))

Compiled(filters, r) ==
    /\ call' = [op |-> "_where_clauses", filters |-> filters]
    /\ out' = r
    /\ UNCHANGED <<db, pre>>

\* zz is no field of the resource
NextWhere ==
    \/ /\ call = NoCall
       /\ \E filters \in PartialFns({"k", "a", "y", "zz"}, FilterValues) :
            Compiled(filters, where_params(filters, WhereFieldsTypes))
    \/ Return

SpecWhere == InitPure /\ [][NextWhere]_vars

WhereCall == call.op = "_where_clauses"

\* the places of the placeholders: clause i, position a
Places ==
    UNION {{<<i, a>> : a \in DOMAIN out.clauses[i].placeholders} : i \in DOMAIN out.clauses}

PlaceName(pl) == out.clauses[pl[1]].placeholders[pl[2]]

\* the value the filter gives for the place
PlaceValue(pl) ==
    LET c == out.clauses[pl[1]]
        v == call.filters[c.field]
        t == TypeOf(WhereFieldsTypes, c.field)
    IN  IF c.op = "in" THEN Bound(t, v.items[pl[2]])
        ELSE Bound(t, IF v.type = "list" THEN v.items ELSE v.v)

\* C26: within one _where_clauses call the placeholder names are distinct
\* across the clauses and the items of list values, and the one parameter
\* mapping the statement is executed with binds each name to the value of
\* its own clause.
C26_PlaceholdersDistinct ==
    WhereCall =>
        /\ \A p, q \in Places : PlaceName(p) = PlaceName(q) => p = q
        /\ DOMAIN out.params = {PlaceName(p) : p \in Places}
        /\ \A p \in Places : out.params[PlaceName(p)] = PlaceValue(p)

\* two list filters of two items each and a filter on the array column
C26_Witness ==
    /\ WhereCall
    /\ Len(out.clauses) = 3
    /\ Cardinality(Places) = 5
    /\ \E i \in DOMAIN out.clauses : out.clauses[i].op = "=" /\ call.filters[out.clauses[i].field].type = "list"


----------------------------------------------------------------------------
(* Running an upsert call a second time *)

\* every record of the call names its row: by _id, or by a value for every
\* column of the unique key
Keyed ==
    \A i \in DOMAIN call.records :
        \/ "_id" \in DOMAIN call.records[i]
        \/ /\ _get_unique_key(PreTbl) # <<>>
           /\ Range(_get_unique_key(PreTbl)) \subseteq DOMAIN call.records[i]

\* a call with method upsert that ran to its end, without dry_run
UpsertOnce ==
    /\ UpsertCall /\ call.method = _UPSERT
    /\ call.fault = -1 /\ ~ call.dry_run
    /\ Keyed

\* the table after the same call has run once more
Again == upsert(db, call, -1).db.tables["r1"]

\* C27: for a single writer, the rows of the table after an upsert call has
\* run twice in succession are the rows after it has run once, also when the
\* _id of a record matches no row.
C27_UpsertIdempotent ==
    UpsertOnce => Again.rows = Tbl.rows


\* the records of the call all name their row by the unique key and carry
\* no _id
ByUniqueKey ==
    /\ _get_unique_key(PreTbl) # <<>>
    /\ \A i \in DOMAIN call.records :
          /\ "_id" \notin DOMAIN call.records[i]
          /\ Range(_get_unique_key(PreTbl)) \subseteq DOMAIN call.records[i]

\* the records of the call all carry the _id of a row the table held
ByExistingId ==
    \A i \in DOMAIN call.records :
        /\ "_id" \in DOMAIN call.records[i]
        /\ \E row \in PreTbl.rows : row._id = call.records[i]._id

\* C27 (amended): the rows after the call has run twice are the rows after
\* it has run once when every record names its row by the unique key
\* without _id, or every record carries the _id of an existing row.
C27_UpsertIdempotentByKey ==
    (UpsertOnce /\ (ByUniqueKey \/ ByExistingId)) => Again.rows = Tbl.rows

\* a call of two records by unique key that changed one row and added one
C27_Witness ==
    /\ UpsertOnce /\ ByUniqueKey /\ out.err = NoError
    /\ Len(call.records) = 2
    /\ Cardinality(PreTbl.rows) = 1 /\ Cardinality(Tbl.rows) = 2
    /\ PreTbl.rows \cap Tbl.rows = {}

----------------------------------------------------------------------------
(* Properties of the triggers of a resource *)

IsFullText(t) == t.name = "zfulltext"

IsCallerTrigger(t) == ~IsFullText(t)

\* the triggers of resource res the caller declared, in creation order
CallerTriggers(d, res) ==
    SelectSeq(d.tables[res].triggers, IsCallerTrigger)

\* the triggers a triggers list declares: t000, t001, ... in its order
Declared(triggers) ==
    [i \in DOMAIN triggers |-> Trigger(TriggerName(i - 1), triggers[i])]

\* C30: after a create call the full-text trigger installed when the table
\* was created is on the table exactly once; when the call returned normally
\* with a triggers list the caller's triggers on the table are exactly the
\* declared ones, in declaration order (the previous ones dropped); a call
\* without a triggers list, like one that raised, leaves them as they were
C30_Triggers ==
    CreateCall =>
        LET res == call.resource_id
        IN  /\ db.tables[res].exists =>
                  Len(SelectSeq(db.tables[res].triggers, IsFullText)) = 1
            /\ (out.err = NoError /\ Given(call, "triggers")) =>
                  CallerTriggers(db, res) = Declared(call.triggers)
            /\ (out.err # NoError \/ ~Given(call, "triggers")) =>
                  CallerTriggers(db, res) = CallerTriggers(pre, res)

============================================================================
